---- MODULE Spec2Model ----
(***************************************************************************)
(* Verification model of the injective-price-oracle relayer.               *)
(*                                                                         *)
(*   Spec        the oracle service: one driver per puller                 *)
(*               (processSetPriceFeed), the batcher (commitSetPrices) and  *)
(*               the failover broadcast (submitBatch / broadcastToClient). *)
(*   FairSpec    Spec with the scheduling fairness of goroutines.          *)
(*   SpecBatch, SpecFull, SpecChainlinkIn   the batcher fed by a producer. *)
(*   SpecStork, SpecCache   the Stork fetcher and its cache under the lock.*)
(*   SpecReconnect, FairReconnect   the Stork reconnect driver.            *)
(*   SpecPipe    one run of the pipeline runner.                           *)
(*   SpecLoad    loading the feed configs and building the registry.       *)
(*   SpecChainlink   the Chainlink fetcher.                                *)
(*   FairChainlink   SpecChainlink, the read loop observing its context.   *)
(*   SpecDyn     one PullPrice of a dynamic feed.                          *)
(*   SpecPricedIn    the batcher fed with priced observations.             *)
(*   SpecBroadcast   Spec with the outcome of the last broadcast recorded. *)
(*   SpecTimed   the driver with its timer and a clock.                    *)
(*   SpecPipeCtx     SpecPipe under cancellation of the run's context.     *)
(*   SpecStorkUnits  the Stork fetcher fed with timestamps of every unit.  *)
(*   SpecConvert     ConvertTimestampToSecond applied to timestamps.       *)
(*   SpecProvider    composeProviderFeedMsgs applied to a batch.           *)
(*   SpecFlight  the drivers with their PullPrice calls counted.           *)
(*   SpecWindow  the batcher fed with one stream in one window.            *)
(***************************************************************************)
EXTENDS Integers, Sequences, FiniteSets, TLC

VARIABLES
    ctxDone,      \* the parent context is cancelled
    provider,     \* ticker -> feed provider of the registered puller
    dataC,        \* the observation channel (buffered)
    chanClosed,   \* the observation channel is closed
    nextId,       \* identity of the next observation a puller creates
    dpc,          \* driver position: "select" | "pull" | "send" | "done"
    dAttempt,     \* driver: index i of the retry loop
    dResult,      \* driver: result of the last PullPrice
    bpc,          \* batcher position: "select" | "submit" | "done" | "panicked"
    pricesBatch,  \* key -> PriceData
    pricesMeta,   \* oracle type -> number of accepted observations
    sub,          \* the batch being submitted (arguments of submitBatch)
    subIdx,       \* index of the chain client the submit loop is at
    window,       \* history: observations accepted since the last resetBatch
    flushLog,     \* history: reason and observations of every flush
    attemptLog,   \* history: the broadcastToClient calls of the latest flush
    composedFor,  \* history: the clients the latest flush composed messages for
    fpc,          \* Stork fetcher position: "idle" | "subscribe" | "reading" | "returned"
    connOpen,     \* the websocket connection of the fetcher is open
    latestPairs,  \* Stork cache: asset id -> AssetPair
    startErr,     \* the error the last Start returned
    frameNo,      \* number of frames read so far
    startFrame,   \* history: frameNo when Start was last called
    lastFrame,    \* history: type of the last frame read since Start was called
    cachedAtReturn, \* history: size of the cache when Start began to return
    rejected,     \* history: asset id -> its last frame data violated the spread
    pulled,       \* history: asset id -> result of PullPrice since the last frame
    taskKind,     \* pipeline run: task -> what its Run does
    edges,        \* pipeline run: the DAG's edges
    tstate,       \* task -> "waiting" | "emitted" | "running" | "panicking" | "settled" | "escaped"
    results,      \* task -> the result reported to the scheduler
    taskChClosed, \* the scheduler closed taskCh
    rpc,          \* position of runner.run: "range" | "update" | "returned"
    runState,     \* run.State
    procCrashed,  \* a goroutine died of an unrecovered panic
    rdpc,         \* Stork reconnect driver: "wait" | "dial" | "dialWait" | "start" | "done"
    connectIn,    \* reconnect driver: seconds the next wait lasts
    retries,      \* ConnectWebSocket: failed dials of the current call
    lastWait,     \* history: seconds the driver waited before the current cycle
    gaveUp,       \* history: a ConnectWebSocket call gave up since the last successful dial
    restarted,    \* history: the running Start was called after an earlier Start returned
    cfgFiles,     \* feed loading: the TOML files of the feeds directory
    lpc,          \* feed loading: "walk" | "construct" | "start" | "running" | "fatal" | "exited"
    lIdx,         \* feed loading: index of the next file or feed config
    feedConfigs,  \* feed loading: the parsed feed configs
    pricePullers, \* feed loading: the registry NewService builds
    mu,           \* Stork cache lock: [w |-> a writer holds it, r |-> readers holding it]
    heap,         \* the AssetPair objects allocated so far
    pairPtr,      \* latestPairs as the map of pointers: asset id -> index in heap
    wpc,          \* fetcher's update: "idle" | "convert" | "locked"
    wData,        \* fetcher's update: the data of the frame being handled
    wTodo,        \* fetcher's update: asset ids still to convert
    wObj,         \* fetcher's update: [id, asset, i] of the pair under construction
    wNewPairs,    \* fetcher's update: newPairs, asset id -> index in heap
    wFrames,      \* number of oracle_prices frames handled
    crpc,         \* cache reader (PullPrice): "idle" | "rlocked" | "use"
    rTicker,      \* cache reader: the ticker asked for
    rPtr,         \* cache reader: the pointer AssetPair returned (0 is nil)
    rObs,         \* history: the fields the reader last read through rPtr
    clpc,         \* Chainlink fetcher position: "idle" | "reading" | "returned"
    stream,       \* f.stream: "nil" | "open" | "closed"
    latestPrices, \* Chainlink cache: feed id -> number of the report cached
    clReads,      \* number of stream.Read calls that returned
    decodeErrs,   \* history: number of reports that failed to decode
    clErr,        \* the error the Chainlink fetcher's Start returned
    clLast,       \* history: outcome of the last stream.Read since Start was called
    dynRun,       \* dynamic feed: what ExecuteRun finds (parse error, pending, terminal results)
    dynOut,       \* dynamic feed: what PullPrice returned
    now,          \* the clock, in seconds
    timerAt,      \* ticker -> the time the driver's timer t fires
    lastEmit,     \* history: ticker -> time of the driver's last enqueue (-1: none)
    prevEmit,     \* history: ticker -> time of the enqueue before the last (-1: none)
    lastPull,     \* history: ticker -> outcome of the last PullPrice of the cycle
    lastBroadcast, \* history: outcome, verdict and metric of the last broadcastToClient
    lastData,     \* history: asset id -> the data the last oracle_prices frame carried for it
    tsIn,         \* timestamp conversion: the publisher timestamp converted last
    tsOut,        \* timestamp conversion: what ConvertTimestampToSecond returned for it
    provBatch,    \* provider composition: the priceBatch handed to composeProviderFeedMsgs
    provMsgs,     \* provider composition: the messages it returned
    inFlight      \* history: ticker -> PullPrice calls begun and not yet returned

svcVars == <<ctxDone, provider, dataC, chanClosed, nextId, dpc, dAttempt, dResult, bpc,
             pricesBatch, pricesMeta, sub, subIdx, window, flushLog, attemptLog,
             composedFor>>

storkVars == <<fpc, connOpen, latestPairs, startErr, frameNo, startFrame, lastFrame,
               cachedAtReturn, rejected, pulled>>

pipeVars == <<taskKind, edges, tstate, results, taskChClosed, rpc, runState,
              procCrashed>>

reconnVars == <<rdpc, connectIn, retries, lastWait, gaveUp, restarted>>

loadVars == <<cfgFiles, lpc, lIdx, feedConfigs, pricePullers>>

cacheVars == <<mu, heap, pairPtr, wpc, wData, wTodo, wObj, wNewPairs, wFrames,
               crpc, rTicker, rPtr, rObs>>

chainlinkVars == <<clpc, stream, latestPrices, clReads, decodeErrs, clErr, clLast>>

dynVars == <<dynRun, dynOut>>

clockVars == <<now, timerAt, lastEmit, prevEmit, lastPull>>

bcVars == <<lastBroadcast>>

histVars == <<lastData, tsIn, tsOut, provBatch, provMsgs, inFlight>>

vars == <<svcVars, storkVars, pipeVars, reconnVars, loadVars, cacheVars,
           chainlinkVars, dynVars, clockVars, bcVars, histVars>>

nonSvcVars == <<storkVars, pipeVars, reconnVars, loadVars, cacheVars, chainlinkVars,
                 dynVars, clockVars, bcVars, histVars>>
nonStorkVars == <<svcVars, pipeVars, reconnVars, loadVars, cacheVars, chainlinkVars,
                   dynVars, clockVars, bcVars, histVars>>
nonPipeVars == <<svcVars, storkVars, reconnVars, loadVars, cacheVars, chainlinkVars,
                  dynVars, clockVars, bcVars, histVars>>
nonReconnVars == <<svcVars, pipeVars, loadVars, cacheVars, chainlinkVars, dynVars,
                    clockVars, bcVars, histVars>>
nonLoadVars == <<svcVars, storkVars, pipeVars, reconnVars, cacheVars, chainlinkVars,
                  dynVars, clockVars, bcVars, histVars>>
nonCacheVars == <<svcVars, storkVars, pipeVars, reconnVars, loadVars, chainlinkVars,
                   dynVars, clockVars, bcVars, histVars>>
nonChainlinkVars == <<svcVars, storkVars, pipeVars, reconnVars, loadVars, cacheVars,
                       dynVars, clockVars, bcVars, histVars>>
nonDynVars == <<svcVars, storkVars, pipeVars, reconnVars, loadVars, cacheVars,
                 chainlinkVars, clockVars, bcVars, histVars>>
\* what a timed driver step leaves alone
nonSvcClockVars == <<storkVars, pipeVars, reconnVars, loadVars, cacheVars, chainlinkVars,
                      dynVars, bcVars, histVars>>
\* what an observed broadcast leaves alone
nonSvcBcVars == <<storkVars, pipeVars, reconnVars, loadVars, cacheVars, chainlinkVars,
                   dynVars, clockVars, histVars>>
\* what a recorded oracle_prices frame leaves alone
nonStorkHistVars == <<svcVars, pipeVars, reconnVars, loadVars, cacheVars, chainlinkVars,
                       dynVars, clockVars, bcVars>>
nonHistVars == <<svcVars, storkVars, pipeVars, reconnVars, loadVars, cacheVars,
                  chainlinkVars, dynVars, clockVars, bcVars>>
\* what a driver step with its calls counted leaves alone
nonSvcHistVars == <<storkVars, pipeVars, reconnVars, loadVars, cacheVars, chainlinkVars,
                     dynVars, clockVars, bcVars>>

----------------------------------------------------------------------------
(* Bounds of the model                                                     *)

NumPullers == 1
NumClients == 2
MaxObs == 3
NumSymbolsB == 2
MaxObsB == 3
MaxObsFull == 102

\* frames the Stork fetcher reads
MaxFrames == 3

\* tasks of the pipeline DAG
NumTasks == 2

\* TOML files in the feeds directory
MaxFiles == 2

(* Program constants                                                       *)

maxRetriesPerInterval == 3
commitPriceBatchSizeLimit == 100
MaxRetriesReConnectWebSocket == 5
RetrySleepMs == 100
ReconnectDelay == 5

----------------------------------------------------------------------------
(* Values                                                                  *)

Nil == "nil"
EmptyMap == [k \in {} |-> k]
Put(f, k, v) == [y \in DOMAIN f \cup {k} |-> IF y = k THEN v ELSE f[y]]
Range(s) == {s[i] : i \in DOMAIN s}

Tickers == 1 .. NumPullers
Clients == 1 .. NumClients

\* the ticker of the n-th feed config
TickerName(n) == "T" \o ToString(n) \o "/USD"

FeedProviders == {"stork", "chainlink"}

\* len(s.pricePullers): the capacity of dataC
ChanCap == NumPullers

\* a nil PriceData
NoData ==
    [id |-> 0, ticker |-> 0, kind |-> Nil, otype |-> Nil, symbol |-> Nil,
     assetPair |-> Nil, report |-> Nil, price |-> 0]

\* the PriceData a Stork puller returns for a non-empty cache entry
StorkPriceData(t, id) ==
    [id |-> id, ticker |-> t, kind |-> "stork", otype |-> "Stork",
     symbol |-> TickerName(t), assetPair |-> "pair", report |-> Nil, price |-> 0]

\* the PriceData a Chainlink puller returns for a cached report
ChainlinkPriceData(t, id) ==
    [id |-> id, ticker |-> t, kind |-> "chainlink", otype |-> "ChainlinkDataStreams",
     symbol |-> TickerName(t), assetPair |-> Nil, report |-> "report", price |-> 0]

PullData(t, id) ==
    IF provider[t] = "stork" THEN StorkPriceData(t, id) ELSE ChainlinkPriceData(t, id)

\* only a negative price is refused
Negative(p) == p < 0

\* price.IsZero() || price.IsNegative()
ZeroOrNegative(p) == p = 0 \/ p < 0

\* validation before insertion: "accept", "skip" or "panic"
Validate(pd) ==
    IF pd.otype = "Stork"
    THEN IF pd.kind = "stork" /\ pd.assetPair = Nil THEN "skip" ELSE "accept"
    ELSE IF pd.otype = "Chainlink"
    THEN IF pd.kind = "chainlink"
         THEN IF pd.report = Nil THEN "panic"
              ELSE IF pd.report = "noFeedId" THEN "skip" ELSE "accept"
         ELSE "accept"
    ELSE IF ZeroOrNegative(pd.price) THEN "skip" ELSE "accept"

BatchFullOffByOne(n) == n > commitPriceBatchSizeLimit

\* the size test after an insertion
BatchFull(n) == n >= commitPriceBatchSizeLimit

BatchKeyNoType(pd) == pd.symbol

\* the map key of an observation
BatchKey(pd) == pd.otype \o ":" \o pd.symbol

composeStorkOracleMsgs(batch) ==
    LET pairs == {k \in DOMAIN batch : batch[k].otype = "Stork" /\ batch[k].kind = "stork"}
    IN IF pairs = {} THEN {} ELSE {[msg |-> "MsgRelayStorkPrices", keys |-> pairs]}

composeChainlinkOracleMsgs(batch) ==
    LET reps == {k \in DOMAIN batch : batch[k].otype = "Chainlink" /\ batch[k].kind = "chainlink"}
    IN IF reps = {} THEN {} ELSE {[msg |-> "MsgRelayChainlinkPrices", keys |-> reps]}

composeMsgs(batch) == composeStorkOracleMsgs(batch) \cup composeChainlinkOracleMsgs(batch)

\* what SyncBroadcastMsgWithContext can return
BroadcastOutcomes == {"err", "noTxResponse", "codeNonZero", "ok"}

\* err, txResp.TxResponse != nil and TxResponse.Code of an outcome
Response(out) ==
    CASE out = "err" -> [err |-> TRUE, tx |-> FALSE, code |-> 0]
      [] out = "noTxResponse" -> [err |-> FALSE, tx |-> FALSE, code |-> 0]
      [] out = "codeNonZero" -> [err |-> FALSE, tx |-> TRUE, code |-> 5]
      [] OTHER -> [err |-> FALSE, tx |-> TRUE, code |-> 0]

\* success without looking at TxResponse
SuccessWithoutTxResponse(out) == ~Response(out).err /\ Response(out).code = 0

\* the value broadcastToClient returns
BroadcastSuccess(out) ==
    /\ ~Response(out).err
    /\ Response(out).tx
    /\ Response(out).code = 0

\* the submitted.price.size counts broadcastToClient emits: one per oracle
\* type of currentMeta, in the branch that returns true
SubmittedMetric(out, meta) ==
    IF Response(out).err THEN EmptyMap
    ELSE IF ~Response(out).tx THEN EmptyMap
    ELSE IF Response(out).code # 0 THEN EmptyMap
    ELSE meta

FirstClientLast == NumClients

SubmitNeverStops(out) == FALSE

\* submitBatch returns when broadcastToClient reported success
SubmitStops(out) == BroadcastSuccess(out)

\* the client the range loop of submitBatch starts with
FirstClient == 1

NoSub == [batch |-> EmptyMap, meta |-> EmptyMap, final |-> FALSE]

----------------------------------------------------------------------------
(* The Stork fetcher: values                                               *)

\* the tickers the fetcher subscribes to
StorkTickers == {"BTCUSD", "ETHUSD"}

\* PullPrice has not been called since the last frame
NotPulled == [called |-> FALSE, data |-> FALSE, frame |-> 0]

\* the fetcher as NewStorkFetcher leaves it
StorkIdle ==
    /\ fpc = "idle"
    /\ connOpen = FALSE
    /\ latestPairs = EmptyMap
    /\ startErr = Nil
    /\ frameNo = 0
    /\ startFrame = 0
    /\ lastFrame = Nil
    /\ cachedAtReturn = 0
    /\ rejected = [a \in StorkTickers |-> FALSE]
    /\ pulled = [a \in StorkTickers |-> NotPulled]

----------------------------------------------------------------------------
(* The pipeline runner: values                                             *)

Tasks == 1 .. NumTasks

\* a run that has not been started
PipeIdle ==
    /\ taskKind = [t \in Tasks |-> "value"]
    /\ edges = {}
    /\ tstate = [t \in Tasks |-> "waiting"]
    /\ results = [t \in Tasks |-> Nil]
    /\ taskChClosed = FALSE
    /\ rpc = "idle"
    /\ runState = "running"
    /\ procCrashed = FALSE

----------------------------------------------------------------------------
(* The Stork reconnect driver: values                                      *)

\* the driver goroutine as it starts: connectIn is 0 s
ReconnIdle ==
    /\ rdpc = "wait"
    /\ connectIn = 0
    /\ retries = 0
    /\ lastWait = 0
    /\ gaveUp = FALSE
    /\ restarted = FALSE

----------------------------------------------------------------------------
(* Feed loading: values                                                    *)

\* the feeds directory is empty and the service has been started
LoadIdle ==
    /\ cfgFiles = <<>>
    /\ lpc = "running"
    /\ lIdx = 1
    /\ feedConfigs = <<>>
    /\ pricePullers = <<>>

----------------------------------------------------------------------------
(* The Stork cache under its lock: values                                  *)

\* no pair under construction
NoObj == [id |-> 0, asset |-> "", i |-> 0]

\* the reader has read nothing
NoObs == [assetId |-> "", signedPrices |-> <<>>, src |-> "", frame |-> 0]

\* NewFetcher: an empty map, a free lock, no frame read
CacheIdle ==
    /\ mu = [w |-> FALSE, r |-> 0]
    /\ heap = <<>>
    /\ pairPtr = EmptyMap
    /\ wpc = "idle"
    /\ wData = EmptyMap
    /\ wTodo = {}
    /\ wObj = NoObj
    /\ wNewPairs = EmptyMap
    /\ wFrames = 0
    /\ crpc = "idle"
    /\ rTicker = ""
    /\ rPtr = 0
    /\ rObs = NoObs

----------------------------------------------------------------------------
(* The Chainlink fetcher: values                                           *)

\* NewFetcher: an empty cache, no stream
ChainlinkIdle ==
    /\ clpc = "idle"
    /\ stream = "nil"
    /\ latestPrices = EmptyMap
    /\ clReads = 0
    /\ decodeErrs = 0
    /\ clErr = Nil
    /\ clLast = Nil

----------------------------------------------------------------------------
(* The dynamic feed: values                                                *)

\* PullPrice has not been called
NotCalled == [called |-> FALSE, data |-> FALSE, err |-> Nil]

\* a run of one terminal task that returned a decimal; PullPrice not called
DynIdle ==
    /\ dynRun = [parseErr |-> FALSE, pending |-> FALSE,
                 terminals |-> <<[value |-> "decimal", error |-> FALSE]>>]
    /\ dynOut = NotCalled

----------------------------------------------------------------------------
(* The clock of the drivers and the last broadcast: values                 *)

FirstTimerSec == 5

\* no broadcastToClient call yet
NoBroadcast == [called |-> FALSE, out |-> Nil, ok |-> FALSE, metric |-> EmptyMap]

\* time.NewTimer(5 * time.Second) in every driver; nothing enqueued
ClockIdle ==
    /\ now = 0
    /\ timerAt = [t \in Tickers |-> FirstTimerSec]
    /\ lastEmit = [t \in Tickers |-> -1]
    /\ prevEmit = [t \in Tickers |-> -1]
    /\ lastPull = [t \in Tickers |-> "none"]
    /\ lastBroadcast = NoBroadcast

\* nothing recorded, nothing converted
HistIdle ==
    /\ lastData = [a \in StorkTickers |-> "none"]
    /\ tsIn = [hi |-> 0, lo |-> 0]
    /\ tsOut = [hi |-> 0, lo |-> 0]
    /\ provBatch = <<>>
    /\ provMsgs = {}
    /\ inFlight = [t \in Tickers |-> 0]

----------------------------------------------------------------------------
(* Construction                                                            *)

Init ==
    /\ ctxDone = FALSE
    /\ provider \in [Tickers -> FeedProviders]
    /\ dataC = <<>>
    /\ chanClosed = FALSE
    /\ nextId = 1
    /\ dpc = [t \in Tickers |-> "select"]
    /\ dAttempt = [t \in Tickers |-> 0]
    /\ dResult = [t \in Tickers |-> NoData]
    /\ bpc = "select"
    /\ pricesBatch = EmptyMap
    /\ pricesMeta = EmptyMap
    /\ sub = NoSub
    /\ subIdx = 0
    /\ window = <<>>
    /\ flushLog = <<>>
    /\ attemptLog = <<>>
    /\ composedFor = {}
    /\ StorkIdle
    /\ PipeIdle
    /\ ReconnIdle
    /\ LoadIdle
    /\ CacheIdle
    /\ ChainlinkIdle
    /\ DynIdle
    /\ ClockIdle
    /\ HistIdle

----------------------------------------------------------------------------
(* The parent context                                                      *)

Cancel ==
    /\ UNCHANGED nonSvcVars
    /\ ~ctxDone
    /\ ctxDone' = TRUE
    /\ UNCHANGED <<provider, dataC, chanClosed, nextId, dpc, dAttempt, dResult, bpc,
                   pricesBatch, pricesMeta, sub, subIdx, window, flushLog, attemptLog,
                   composedFor>>

----------------------------------------------------------------------------
(* processSetPriceFeed: the driver of one puller                           *)

batcherVars == <<bpc, pricesBatch, pricesMeta, sub, subIdx, window, flushLog,
                 attemptLog, composedFor>>

\* select: case <-ctx.Done()
DriverStopCall(t) ==
    /\ dpc[t] = "select"
    /\ ctxDone
    /\ dpc' = [dpc EXCEPT ![t] = "done"]
    /\ UNCHANGED <<ctxDone, provider, dataC, chanClosed, nextId, dAttempt, dResult, batcherVars>>

\* select: case <-t.C
DriverTickCall(t) ==
    /\ dpc[t] = "select"
    /\ dpc' = [dpc EXCEPT ![t] = "pull"]
    /\ dAttempt' = [dAttempt EXCEPT ![t] = 0]
    /\ dResult' = [dResult EXCEPT ![t] = NoData]
    /\ UNCHANGED <<ctxDone, provider, dataC, chanClosed, nextId, batcherVars>>

\* one iteration of the retry loop: PullPrice returned an error
DriverPullErrCall(t) ==
    /\ dpc[t] = "pull"
    /\ IF dAttempt[t] + 1 < maxRetriesPerInterval
       THEN /\ dAttempt' = [dAttempt EXCEPT ![t] = @ + 1]
            /\ dpc' = dpc
       ELSE /\ dAttempt' = [dAttempt EXCEPT ![t] = 0]
            /\ dpc' = [dpc EXCEPT ![t] = "select"]
    /\ dResult' = [dResult EXCEPT ![t] = NoData]
    /\ UNCHANGED <<ctxDone, provider, dataC, chanClosed, nextId, batcherVars>>

\* one iteration of the retry loop: PullPrice returned (nil, nil)
DriverPullNilCall(t) ==
    /\ dpc[t] = "pull"
    /\ dpc' = [dpc EXCEPT ![t] = "select"]
    /\ dAttempt' = [dAttempt EXCEPT ![t] = 0]
    /\ dResult' = [dResult EXCEPT ![t] = NoData]
    /\ UNCHANGED <<ctxDone, provider, dataC, chanClosed, nextId, batcherVars>>

\* one iteration of the retry loop: PullPrice returned an observation
DriverPullDataCall(t) ==
    /\ dpc[t] = "pull"
    /\ nextId <= MaxObs
    /\ dResult' = [dResult EXCEPT ![t] = PullData(t, nextId)]
    /\ nextId' = nextId + 1
    /\ dpc' = [dpc EXCEPT ![t] = "send"]
    /\ dAttempt' = [dAttempt EXCEPT ![t] = 0]
    /\ UNCHANGED <<ctxDone, provider, dataC, chanClosed, batcherVars>>

\* dataC <- result
DriverSendCall(t) ==
    /\ dpc[t] = "send"
    /\ Len(dataC) < ChanCap
    /\ dataC' = Append(dataC, dResult[t])
    /\ dpc' = [dpc EXCEPT ![t] = "select"]
    /\ dResult' = [dResult EXCEPT ![t] = NoData]
    /\ UNCHANGED <<ctxDone, provider, chanClosed, nextId, dAttempt, batcherVars>>

DriverStop(t) == UNCHANGED nonSvcVars /\ DriverStopCall(t)

DriverTick(t) == UNCHANGED nonSvcVars /\ DriverTickCall(t)

DriverPullErr(t) == UNCHANGED nonSvcVars /\ DriverPullErrCall(t)

DriverPullNil(t) == UNCHANGED nonSvcVars /\ DriverPullNilCall(t)

DriverPullData(t) == UNCHANGED nonSvcVars /\ DriverPullDataCall(t)

DriverSend(t) == UNCHANGED nonSvcVars /\ DriverSendCall(t)

\* request contexts the retry loop has created in the running cycle, the one of
\* the attempt in progress included: every iteration makes its own
RequestCtxsCreated(t) == IF dpc[t] = "pull" THEN dAttempt[t] + 1 ELSE 0

DriverStep(t) ==
    \/ DriverStop(t)
    \/ DriverTick(t)
    \/ DriverPullErr(t)
    \/ DriverPullNil(t)
    \/ DriverPullData(t)
    \/ DriverSend(t)

----------------------------------------------------------------------------
(* commitSetPrices: the batcher                                            *)

driverVars == <<provider, nextId, dpc, dAttempt, dResult>>

\* the identities of the observations a batch holds
Ids(batch) == {batch[k].id : k \in DOMAIN batch}

\* where the batcher goes when submitBatch has returned
AfterSubmit(final) == IF final THEN "done" ELSE "select"

\* resetBatch goes on with the map it hands out
SameBatch(prev) == prev

\* resetBatch: pricesBatch = make(map[string]types.PriceData)
FreshBatch(prev) == EmptyMap

\* resetBatch, then submitBatch up to its first broadcast.  A timer flush of an
\* empty batch leaves no trace in flushLog.
Flush(batch, meta, reason, final) ==
    /\ pricesBatch' = FreshBatch(batch)
    /\ pricesMeta' = EmptyMap
    /\ window' = <<>>
    /\ attemptLog' = IF DOMAIN batch = {} /\ ~final THEN attemptLog ELSE <<>>
    /\ flushLog' = IF DOMAIN batch = {} /\ ~final
                   THEN flushLog
                   ELSE Append(flushLog, [reason |-> reason, ids |-> Ids(batch)])
    /\ composedFor' = IF DOMAIN batch = {}
                      THEN IF final THEN {} ELSE composedFor
                      ELSE {FirstClient}
    /\ IF DOMAIN batch = {} \/ composeMsgs(batch) = {}
       THEN /\ bpc' = AfterSubmit(final)
            /\ sub' = NoSub
            /\ subIdx' = 0
       ELSE /\ bpc' = "submit"
            /\ sub' = [batch |-> batch, meta |-> meta, final |-> final]
            /\ subIdx' = FirstClient

BatcherCancelNoReturn ==
    /\ UNCHANGED nonSvcVars
    /\ bpc = "select"
    /\ ctxDone
    /\ Flush(pricesBatch, pricesMeta, "cancel", FALSE)
    /\ UNCHANGED <<ctxDone, dataC, chanClosed, driverVars>>

\* select: case <-ctx.Done()
BatcherCancel ==
    /\ UNCHANGED nonSvcVars
    /\ bpc = "select"
    /\ ctxDone
    /\ Flush(pricesBatch, pricesMeta, "cancel", TRUE)
    /\ UNCHANGED <<ctxDone, dataC, chanClosed, driverVars>>

\* select: case priceData, ok := <-dataC
BatcherRecv ==
    /\ UNCHANGED nonSvcVars
    /\ bpc = "select"
    /\ dataC # <<>> \/ chanClosed
    /\ IF dataC = <<>>
       THEN /\ Flush(pricesBatch, pricesMeta, "close", TRUE)
            /\ dataC' = dataC
       ELSE /\ dataC' = Tail(dataC)
            /\ LET pd == Head(dataC)
                   v == Validate(pd)
                   nb == Put(pricesBatch, BatchKey(pd), pd)
                   nm == Put(pricesMeta, pd.otype,
                             (IF pd.otype \in DOMAIN pricesMeta
                              THEN pricesMeta[pd.otype] ELSE 0) + 1)
               IN IF v = "skip"
                  THEN UNCHANGED batcherVars
                  ELSE IF v = "panic"
                  THEN /\ bpc' = "panicked"
                       /\ UNCHANGED <<pricesBatch, pricesMeta, sub, subIdx, window,
                                      flushLog, attemptLog, composedFor>>
                  ELSE IF BatchFull(Cardinality(DOMAIN nb))
                  THEN Flush(nb, nm, "full", FALSE)
                  ELSE /\ pricesBatch' = nb
                       /\ pricesMeta' = nm
                       /\ window' = Append(window, pd)
                       /\ UNCHANGED <<bpc, sub, subIdx, flushLog, attemptLog,
                                      composedFor>>
    /\ UNCHANGED <<ctxDone, chanClosed, driverVars>>

\* select: case <-expirationTimer.C
BatcherTimer ==
    /\ UNCHANGED nonSvcVars
    /\ bpc = "select"
    /\ Flush(pricesBatch, pricesMeta, "timer", FALSE)
    /\ UNCHANGED <<ctxDone, dataC, chanClosed, driverVars>>

\* one iteration of the client loop of submitBatch: broadcastToClient
BroadcastCall(out) ==
    /\ bpc = "submit"
    /\ attemptLog' = Append(attemptLog,
            [client |-> subIdx, ok |-> BroadcastSuccess(out)])
    /\ IF SubmitStops(out) \/ subIdx + 1 > NumClients
       THEN /\ bpc' = AfterSubmit(sub.final)
            /\ sub' = NoSub
            /\ subIdx' = 0
            /\ composedFor' = composedFor
       ELSE /\ bpc' = "submit"
            /\ sub' = sub
            /\ subIdx' = subIdx + 1
            /\ composedFor' = composedFor \cup {subIdx + 1}
    /\ UNCHANGED <<ctxDone, dataC, chanClosed, driverVars, pricesBatch, pricesMeta, window, flushLog>>

BatcherBroadcast ==
    /\ UNCHANGED nonSvcVars
    /\ \E out \in BroadcastOutcomes : BroadcastCall(out)

BatcherStep ==
    \/ BatcherCancel
    \/ BatcherRecv
    \/ BatcherTimer
    \/ BatcherBroadcast

----------------------------------------------------------------------------
(* The oracle service                                                      *)

Next ==
    \/ Cancel
    \/ \E t \in Tickers : DriverStep(t)
    \/ BatcherStep

Spec == Init /\ [][Next]_vars

\* goroutines keep running; a select whose ctx.Done() case stays ready takes it
FairSpec ==
    /\ Spec
    /\ WF_vars(BatcherStep)
    /\ \A t \in Tickers : WF_vars(DriverStep(t)) /\ SF_vars(DriverStop(t))

----------------------------------------------------------------------------
(* commitSetPrices on its own: the batcher fed by an arbitrary producer    *)
(* writing PriceData to dataC, instead of the drivers.                     *)

\* PriceData values the batcher accepts
InputVariants == {"stork", "chainlink"}

InputPriceData(variant, n, id) ==
    IF variant = "stork"
    THEN StorkPriceData(n, id)
    ELSE [ChainlinkPriceData(n, id) EXCEPT !.otype = "Chainlink"]

\* the batcher alone: no driver runs, a producer feeds dataC
BatcherOnly ==
    /\ ctxDone = FALSE
    /\ provider = [t \in Tickers |-> "stork"]
    /\ dataC = <<>>
    /\ chanClosed = FALSE
    /\ nextId = 1
    /\ dpc = [t \in Tickers |-> "off"]
    /\ dAttempt = [t \in Tickers |-> 0]
    /\ dResult = [t \in Tickers |-> NoData]
    /\ bpc = "select"
    /\ pricesBatch = EmptyMap
    /\ pricesMeta = EmptyMap
    /\ sub = NoSub
    /\ subIdx = 0
    /\ window = <<>>
    /\ flushLog = <<>>
    /\ attemptLog = <<>>
    /\ composedFor = {}

InitBatch ==
    /\ BatcherOnly
    /\ StorkIdle
    /\ PipeIdle
    /\ ReconnIdle
    /\ LoadIdle
    /\ CacheIdle
    /\ ChainlinkIdle
    /\ DynIdle
    /\ ClockIdle
    /\ HistIdle

\* the producer writes one observation
ProducerSend(variant, n) ==
    /\ UNCHANGED nonSvcVars
    /\ ~chanClosed
    /\ Len(dataC) < ChanCap
    /\ dataC' = Append(dataC, InputPriceData(variant, n, nextId))
    /\ nextId' = nextId + 1
    /\ UNCHANGED <<ctxDone, provider, chanClosed, dpc, dAttempt, dResult, batcherVars>>

\* the producer closes the channel
ProducerClose ==
    /\ UNCHANGED nonSvcVars
    /\ ~chanClosed
    /\ chanClosed' = TRUE
    /\ UNCHANGED <<ctxDone, provider, dataC, nextId, dpc, dAttempt, dResult, batcherVars>>

ProducerSendAny ==
    /\ nextId <= MaxObsB
    /\ \E variant \in InputVariants, n \in 1 .. NumSymbolsB : ProducerSend(variant, n)

NextBatch ==
    \/ Cancel
    \/ ProducerSendAny
    \/ ProducerClose
    \/ BatcherStep

SpecBatch == InitBatch /\ [][NextBatch]_vars

\* a burst of observations with pairwise different symbols, faster than the
\* expiration timer: the timer fires only when the burst is over
ProducerSendBurst ==
    /\ nextId <= MaxObsFull
    /\ ProducerSend("stork", nextId)

BurstOver == nextId > MaxObsFull /\ dataC = <<>>

NextFull ==
    \/ Cancel
    \/ ProducerSendBurst
    \/ ProducerClose
    \/ BatcherCancel
    \/ BatcherRecv
    \/ BurstOver /\ BatcherTimer
    \/ BatcherBroadcast

SpecFull == InitBatch /\ [][NextFull]_vars

----------------------------------------------------------------------------
(* The batcher fed with observations tagged OracleType_Chainlink           *)

\* the ChainlinkReport of the observation: a nil pointer, a report whose FeedId
\* is a nil slice, one whose FeedId is an empty slice, a complete report
ChainlinkReportVariants == {Nil, "noFeedId", "emptyFeedId", "report"}

ChainlinkInput(rep, n, id) ==
    [ChainlinkPriceData(n, id) EXCEPT !.otype = "Chainlink", !.report = rep]

ProducerSendChainlink ==
    /\ UNCHANGED nonSvcVars
    /\ nextId <= MaxObsB
    /\ ~chanClosed
    /\ Len(dataC) < ChanCap
    /\ \E rep \in ChainlinkReportVariants, n \in 1 .. NumSymbolsB :
          dataC' = Append(dataC, ChainlinkInput(rep, n, nextId))
    /\ nextId' = nextId + 1
    /\ UNCHANGED <<ctxDone, provider, chanClosed, dpc, dAttempt, dResult, batcherVars>>

\* the oracle types whose observations carry a price
PricedOracleTypes == {"PriceFeed", "Provider"}

InputPrices == {-1, 0, 1}

MaxPriced == 2

\* the PriceData a dynamic feed returns
PricedInput(otype, price, n, id) ==
    [id |-> id, ticker |-> n, kind |-> "dynamic", otype |-> otype,
     symbol |-> TickerName(n), assetPair |-> Nil, report |-> Nil, price |-> price]

ProducerSendPriced ==
    /\ UNCHANGED nonSvcVars
    /\ nextId <= MaxPriced
    /\ ~chanClosed
    /\ Len(dataC) < ChanCap
    /\ \E otype \in PricedOracleTypes, price \in InputPrices, n \in Tickers :
          dataC' = Append(dataC, PricedInput(otype, price, n, nextId))
    /\ nextId' = nextId + 1
    /\ UNCHANGED <<ctxDone, provider, chanClosed, dpc, dAttempt, dResult, batcherVars>>

\* a batch of priced observations composes no message: nothing is broadcast
NextPricedIn ==
    \/ Cancel
    \/ ProducerSendPriced
    \/ ProducerClose
    \/ BatcherCancel
    \/ BatcherRecv
    \/ BatcherTimer

SpecPricedIn == InitBatch /\ [][NextPricedIn]_vars

\* broadcastToClient, with its outcome and its metric recorded
BroadcastObserved ==
    /\ UNCHANGED nonSvcBcVars
    /\ \E out \in BroadcastOutcomes :
          /\ BroadcastCall(out)
          /\ lastBroadcast' = [called |-> TRUE, out |-> out,
                                ok |-> BroadcastSuccess(out),
                                metric |-> SubmittedMetric(out, sub.meta)]

NextBroadcast ==
    \/ Cancel
    \/ ProducerSendAny
    \/ ProducerClose
    \/ BatcherCancel
    \/ BatcherRecv
    \/ BatcherTimer
    \/ BroadcastObserved

SpecBroadcast == InitBatch /\ [][NextBroadcast]_vars

----------------------------------------------------------------------------
(* The drivers with their timers                                           *)

PullIntervalSec == 2

MaxTime == 8

\* pricePuller.Interval()
Interval(t) == PullIntervalSec

\* the timer is re-armed to fire at once
ResetNow(t) == now

\* t.Reset(pricePuller.Interval())
ResetTo(t) == now + Interval(t)

\* the pull does not wait for the timer
TimerIgnored(t) == t \in Tickers

\* case <-t.C
TimerFired(t) == now >= timerAt[t]

TimeAdvance ==
    /\ UNCHANGED <<svcVars, nonSvcClockVars>>
    /\ now < MaxTime
    /\ now' = now + 1
    /\ UNCHANGED <<timerAt, lastEmit, prevEmit, lastPull>>

TimedStop(t) ==
    /\ UNCHANGED nonSvcClockVars
    /\ DriverStopCall(t)
    /\ UNCHANGED clockVars

TimedTick(t) ==
    /\ UNCHANGED nonSvcClockVars
    /\ TimerFired(t)
    /\ DriverTickCall(t)
    /\ lastPull' = [lastPull EXCEPT ![t] = "none"]
    /\ UNCHANGED <<now, timerAt, lastEmit, prevEmit>>

\* after the last failed attempt the timer is reset
TimedPullErr(t) ==
    /\ UNCHANGED nonSvcClockVars
    /\ DriverPullErrCall(t)
    /\ lastPull' = [lastPull EXCEPT ![t] = "err"]
    /\ timerAt' = IF dAttempt[t] + 1 < maxRetriesPerInterval THEN timerAt
                  ELSE [timerAt EXCEPT ![t] = ResetTo(t)]
    /\ UNCHANGED <<now, lastEmit, prevEmit>>

TimedPullNil(t) ==
    /\ UNCHANGED nonSvcClockVars
    /\ DriverPullNilCall(t)
    /\ lastPull' = [lastPull EXCEPT ![t] = "nil"]
    /\ timerAt' = [timerAt EXCEPT ![t] = ResetTo(t)]
    /\ UNCHANGED <<now, lastEmit, prevEmit>>

TimedPullData(t) ==
    /\ UNCHANGED nonSvcClockVars
    /\ DriverPullDataCall(t)
    /\ lastPull' = [lastPull EXCEPT ![t] = "data"]
    /\ UNCHANGED <<now, timerAt, lastEmit, prevEmit>>

\* the send completes and the timer is reset
TimedSend(t) ==
    /\ UNCHANGED nonSvcClockVars
    /\ DriverSendCall(t)
    /\ prevEmit' = [prevEmit EXCEPT ![t] = lastEmit[t]]
    /\ lastEmit' = [lastEmit EXCEPT ![t] = now]
    /\ timerAt' = [timerAt EXCEPT ![t] = ResetTo(t)]
    /\ UNCHANGED <<now, lastPull>>

\* the drivers, the clock, and the batcher taking what they enqueue
NextTimed ==
    \/ Cancel
    \/ TimeAdvance
    \/ \E t \in Tickers : TimedStop(t)
    \/ \E t \in Tickers : TimedTick(t)
    \/ \E t \in Tickers : TimedPullErr(t)
    \/ \E t \in Tickers : TimedPullNil(t)
    \/ \E t \in Tickers : TimedPullData(t)
    \/ \E t \in Tickers : TimedSend(t)
    \/ BatcherRecv

SpecTimed == Init /\ [][NextTimed]_vars

NextChainlinkIn ==
    \/ Cancel
    \/ ProducerSendChainlink
    \/ ProducerClose
    \/ BatcherStep

SpecChainlinkIn == InitBatch /\ [][NextChainlinkIn]_vars

----------------------------------------------------------------------------
(* The Stork fetcher (oracle/stork_fetcher.go, oracle/feed_stork.go)      *)

\* A uint64 timestamp hi * 10^9 + lo, kept as two limbs.
Ts(hi, lo) == [hi |-> hi, lo |-> lo]

TsZero == Ts(0, 0)

TsGT(a, b) == a.hi > b.hi \/ (a.hi = b.hi /\ a.lo > b.lo)

\* a - b for a >= b
TsSub(a, b) ==
    IF a.lo >= b.lo
    THEN Ts(a.hi - b.hi, a.lo - b.lo)
    ELSE Ts(a.hi - b.hi - 1, a.lo + 1000000000 - b.lo)

MaxStorkTimestampIntervalNano == Ts(0, 500000000)

\* the signed prices one asset can carry in an oracle_prices frame
StorkDataVariants == {"tight", "wide", "empty"}

SignedPrice(pub, ts) == [publisherKey |-> pub, timestamp |-> ts]

StorkData(variant) ==
    CASE variant = "tight" ->
           <<SignedPrice("pub1", Ts(1737468044, 0)),
             SignedPrice("pub2", Ts(1737468044, 400000000))>>
      [] variant = "wide" ->
           <<SignedPrice("pub1", Ts(1737468044, 0)),
             SignedPrice("pub2", Ts(1737468044, 600000000))>>
      [] variant = "crossSecond" ->
           <<SignedPrice("pub1", Ts(1737468044, 900000000)),
             SignedPrice("pub2", Ts(1737468045, 100000000))>>
      [] variant = "milliTight" ->
           <<SignedPrice("pub1", Ts(1737, 468044000)),
             SignedPrice("pub2", Ts(1737, 468044400))>>
      [] variant = "milliWide" ->
           <<SignedPrice("pub1", Ts(1737, 468044000)),
             SignedPrice("pub2", Ts(1737, 468044600))>>
      [] variant = "secondsWide" ->
           <<SignedPrice("pub1", Ts(1, 737468044)),
             SignedPrice("pub2", Ts(1, 737468045))>>
      [] OTHER -> <<>>

RECURSIVE NewestTimestamp(_)
NewestTimestamp(prices) ==
    IF prices = <<>> THEN TsZero
    ELSE LET rest == NewestTimestamp(Tail(prices))
         IN  IF TsGT(Head(prices).timestamp, rest)
             THEN Head(prices).timestamp ELSE rest

\* only read when prices is not empty
RECURSIVE OldestTimestamp(_)
OldestTimestamp(prices) ==
    IF Len(prices) = 1 THEN Head(prices).timestamp
    ELSE LET rest == OldestTimestamp(Tail(prices))
         IN  IF TsGT(rest, Head(prices).timestamp)
             THEN Head(prices).timestamp ELSE rest

getTimestampInRange(prices) ==
    LET newest == NewestTimestamp(prices)
    IN  IF newest = TsZero
        THEN [err |-> "noTimestamps", ts |-> TsZero]
        ELSE IF TsGT(TsSub(newest, OldestTimestamp(prices)),
                     MaxStorkTimestampIntervalNano)
             THEN [err |-> "exceedThreshold", ts |-> TsZero]
             ELSE [err |-> Nil, ts |-> newest]

\* ts >= hi * 10^9
TsAtLeast(ts, hi) == ts.hi >= hi

\* ts > hi * 10^9
TsAbove(ts, hi) == ts.hi > hi \/ (ts.hi = hi /\ ts.lo > 0)

ConvertTimestampToSecond(ts) ==
    CASE TsAbove(ts, 1000000000) ->
           Ts(ts.hi \div 1000000000, ts.hi % 1000000000)
      [] TsAbove(ts, 1000000) ->
           Ts(ts.hi \div 1000000,
              (ts.hi % 1000000) * 1000 + (ts.lo \div 1000000))
      [] TsAbove(ts, 1000) ->
           Ts(ts.hi \div 1000, (ts.hi % 1000) * 1000000 + (ts.lo \div 1000))
      [] OTHER -> ts

ConvertSignedPrice(sp) ==
    [publisherKey |-> sp.publisherKey,
     timestamp |-> ConvertTimestampToSecond(sp.timestamp)]

\* every converted price passes
NeverMismatch(c, sec) == FALSE

\* the converted price is not at the second of the reference timestamp
TimestampMismatch(c, sec) == c.timestamp # sec

RECURSIVE KeepAtSecond(_, _)
KeepAtSecond(prices, sec) ==
    IF prices = <<>> THEN <<>>
    ELSE LET c == ConvertSignedPrice(Head(prices))
         IN  IF TimestampMismatch(c, sec)
             THEN KeepAtSecond(Tail(prices), sec)
             ELSE <<c>> \o KeepAtSecond(Tail(prices), sec)

\* frame is the number of the frame that carried the data
ConvertDataToAssetPair(prices, assetId, refTimestamp, frame) ==
    [assetId |-> assetId,
     signedPrices |-> KeepAtSecond(prices, ConvertTimestampToSecond(refTimestamp)),
     frame |-> frame]

\* the oracle_prices payloads: asset id -> data, for some of the tickers
StorkFrames ==
    UNION {[S -> StorkDataVariants] : S \in (SUBSET StorkTickers) \ {{}}}

\* reset without the new map
ResetKeepsPairs(pairs) == pairs

\* reset: the cache is replaced by an empty map
ResetPairs(pairs) == EmptyMap

\* Start(ctx, conn): the fetcher takes the connection; ctx is not looked at
StartCall ==
    /\ fpc \in {"idle", "returned"}
    /\ fpc' = "subscribe"
    /\ connOpen' = TRUE
    /\ startErr' = Nil
    /\ lastFrame' = Nil
    /\ cachedAtReturn' = 0
    /\ startFrame' = frameNo
    /\ UNCHANGED <<latestPairs, frameNo, rejected, pulled>>

\* Start is called with a fresh connection
StorkStart ==
    /\ UNCHANGED nonStorkVars
    /\ frameNo < MaxFrames
    /\ StartCall

\* Start returns err; the deferred reset closes the connection and clears the cache
StorkReturn(err) ==
    /\ fpc' = "returned"
    /\ startErr' = err
    /\ connOpen' = FALSE
    /\ cachedAtReturn' = Cardinality(DOMAIN latestPairs)
    /\ latestPairs' = ResetPairs(latestPairs)

StorkSubscribeOk ==
    /\ UNCHANGED nonStorkVars
    /\ fpc = "subscribe"
    /\ fpc' = "reading"
    /\ UNCHANGED <<connOpen, latestPairs, startErr, frameNo, startFrame, lastFrame,
                   cachedAtReturn, rejected, pulled>>

StorkSubscribeErr ==
    /\ UNCHANGED nonStorkVars
    /\ fpc = "subscribe"
    /\ StorkReturn("writeError")
    /\ UNCHANGED <<frameNo, startFrame, lastFrame, rejected, pulled>>

StorkReadErr ==
    /\ UNCHANGED nonStorkVars
    /\ fpc = "reading"
    /\ StorkReturn("readError")
    /\ UNCHANGED <<frameNo, startFrame, lastFrame, rejected, pulled>>

\* such a frame handled like invalid_message
StorkIgnoredEndsStart(type) ==
    /\ UNCHANGED nonStorkVars
    /\ fpc = "reading"
    /\ frameNo < MaxFrames
    /\ frameNo' = frameNo + 1
    /\ UNCHANGED startFrame
    /\ lastFrame' = type
    /\ StorkReturn("ErrInvalidMessage")
    /\ UNCHANGED <<rejected, pulled>>

\* a frame that leaves the fetcher reading: not JSON, subscribe, unknown type,
\* or oracle_prices whose data does not parse
StorkReadIgnored(type) ==
    /\ UNCHANGED nonStorkVars
    /\ fpc = "reading"
    /\ frameNo < MaxFrames
    /\ frameNo' = frameNo + 1
    /\ UNCHANGED startFrame
    /\ lastFrame' = type
    /\ UNCHANGED <<fpc, connOpen, latestPairs, startErr, cachedAtReturn,
                   rejected, pulled>>

StorkReadInvalid ==
    /\ UNCHANGED nonStorkVars
    /\ fpc = "reading"
    /\ frameNo < MaxFrames
    /\ frameNo' = frameNo + 1
    /\ UNCHANGED startFrame
    /\ lastFrame' = "invalid_message"
    /\ StorkReturn("ErrInvalidMessage")
    /\ UNCHANGED <<rejected, pulled>>

StorkReadPricesCall(data) ==
    /\ fpc = "reading"
    /\ frameNo < MaxFrames
    /\ frameNo' = frameNo + 1
    /\ UNCHANGED startFrame
    /\ lastFrame' = "oracle_prices"
    /\ LET inRange == [a \in DOMAIN data |-> getTimestampInRange(StorkData(data[a]))]
           accepted == {a \in DOMAIN data : inRange[a].err = Nil}
           newPairs == [a \in accepted |->
                          ConvertDataToAssetPair(StorkData(data[a]), a,
                                                 inRange[a].ts, frameNo + 1)]
       IN  /\ latestPairs' = [a \in DOMAIN latestPairs \cup accepted |->
                                IF a \in accepted THEN newPairs[a]
                                ELSE latestPairs[a]]
           /\ rejected' = [a \in StorkTickers |->
                             IF a \in accepted THEN FALSE
                             ELSE IF a \in DOMAIN data
                                     /\ inRange[a].err = "exceedThreshold"
                                  THEN TRUE
                                  ELSE rejected[a]]
    /\ pulled' = [a \in StorkTickers |-> NotPulled]
    /\ UNCHANGED <<fpc, connOpen, startErr, cachedAtReturn>>

StorkReadPrices(data) ==
    /\ UNCHANGED nonStorkVars
    /\ StorkReadPricesCall(data)

\* AssetPair returns nil exactly when the ticker has no cache entry
PairIsNil(ticker) == ticker \notin DOMAIN latestPairs

\* the Stork puller of ticker a returns (nil, nil) or an observation carrying
\* the cached pair; frame tells which frame the pair came from
StorkPullPrice(a) ==
    /\ UNCHANGED nonStorkVars
    /\ pulled[a] = NotPulled
    /\ pulled' = [pulled EXCEPT ![a] =
                    IF PairIsNil(a)
                    THEN [called |-> TRUE, data |-> FALSE, frame |-> 0]
                    ELSE IF Len(latestPairs[a].signedPrices) = 0
                    THEN [called |-> TRUE, data |-> FALSE, frame |-> 0]
                    ELSE [called |-> TRUE, data |-> TRUE,
                          frame |-> latestPairs[a].frame]]
    /\ UNCHANGED <<fpc, connOpen, latestPairs, startErr, frameNo, startFrame, lastFrame,
                   cachedAtReturn, rejected>>

StorkIgnoredTypes == {"unparsable", "subscribe", "unknown", "oracle_prices_unparsable"}

InitStork == InitBatch

NextStork ==
    \/ StorkStart
    \/ StorkSubscribeOk
    \/ StorkSubscribeErr
    \/ StorkReadErr
    \/ \E type \in StorkIgnoredTypes : StorkReadIgnored(type)
    \/ StorkReadInvalid
    \/ \E data \in StorkFrames : StorkReadPrices(data)
    \/ \E a \in StorkTickers : StorkPullPrice(a)

SpecStork == InitStork /\ [][NextStork]_vars

----------------------------------------------------------------------------
(* The pipeline runner (unnamed/part_011, pipeline/task.panic.go)         *)

\* what a task's Run does: return a value, return an error, panic with a
\* string (the panic task), panic with a runtime error
TaskKinds == {"value", "error", "panicString", "panicError"}

ChainEdges == {<<i, i + 1>> : i \in 1 .. (NumTasks - 1)}

Upstream(t) == {u \in Tasks : <<u, t>> \in edges}

\* every task counts
AnyTask(t) == t \in Tasks

\* a task with no outputs
Terminal(t) == ~ \E u \in Tasks : <<t, u>> \in edges

\* run.State as NewRun sets it, with the DAG and tasks of the run
InitPipe ==
    /\ BatcherOnly
    /\ StorkIdle
    /\ ReconnIdle
    /\ LoadIdle
    /\ CacheIdle
    /\ ChainlinkIdle
    /\ DynIdle
    /\ ClockIdle
    /\ HistIdle
    /\ taskKind \in [Tasks -> TaskKinds]
    /\ edges \in {ChainEdges, {}}
    /\ tstate = [t \in Tasks |-> "waiting"]
    /\ results = [t \in Tasks |-> Nil]
    /\ taskChClosed = FALSE
    /\ rpc = "range"
    /\ runState = "running"
    /\ procCrashed = FALSE

\* scheduler: a task whose upstream tasks have all settled is sent on taskCh
SchedEmit(t) ==
    /\ UNCHANGED nonPipeVars
    /\ ~procCrashed
    /\ ~taskChClosed
    /\ tstate[t] = "waiting"
    /\ \A u \in Upstream(t) : tstate[u] = "settled"
    /\ tstate' = [tstate EXCEPT ![t] = "emitted"]
    /\ UNCHANGED <<taskKind, edges, results, taskChClosed, rpc, runState, procCrashed>>

\* scheduler: every task has reported, taskCh is closed
SchedClose ==
    /\ UNCHANGED nonPipeVars
    /\ ~procCrashed
    /\ ~taskChClosed
    /\ \A t \in Tasks : tstate[t] = "settled"
    /\ taskChClosed' = TRUE
    /\ UNCHANGED <<taskKind, edges, tstate, results, rpc, runState, procCrashed>>

\* scheduler.report
Report(t, result) ==
    /\ results' = [results EXCEPT ![t] = result]
    /\ tstate' = [tstate EXCEPT ![t] = "settled"]

\* run: the range loop takes a task run and starts its worker
RunnerSpawn(t) ==
    /\ UNCHANGED nonPipeVars
    /\ ~procCrashed
    /\ rpc = "range"
    /\ tstate[t] = "emitted"
    /\ tstate' = [tstate EXCEPT ![t] = "running"]
    /\ UNCHANGED <<taskKind, edges, results, taskChClosed, rpc, runState, procCrashed>>

\* worker: fn returns, executeTaskRun's result is reported
WorkerReturn(t) ==
    /\ UNCHANGED nonPipeVars
    /\ ~procCrashed
    /\ tstate[t] = "running"
    /\ taskKind[t] \in {"value", "error"}
    /\ Report(t, taskKind[t])
    /\ UNCHANGED <<taskKind, edges, taskChClosed, rpc, runState, procCrashed>>

\* worker: the task's Run panics
WorkerPanic(t) ==
    /\ UNCHANGED nonPipeVars
    /\ ~procCrashed
    /\ tstate[t] = "running"
    /\ taskKind[t] \in {"panicString", "panicError"}
    /\ tstate' = [tstate EXCEPT ![t] = "panicking"]
    /\ UNCHANGED <<taskKind, edges, results, taskChClosed, rpc, runState, procCrashed>>

\* the recovered value satisfies the assertion err.(error)
IsError(kind) == kind = "panicError"

\* WrapRecoverHandle's deferred function
WorkerRecover(t) ==
    /\ UNCHANGED nonPipeVars
    /\ ~procCrashed
    /\ tstate[t] = "panicking"
    /\ IF IsError(taskKind[t])
       THEN /\ Report(t, "ErrRunPanicked")
            /\ UNCHANGED procCrashed
       ELSE /\ tstate' = [tstate EXCEPT ![t] = "escaped"]
            /\ procCrashed' = TRUE
            /\ UNCHANGED results
    /\ UNCHANGED <<taskKind, edges, taskChClosed, rpc, runState>>

\* run: the range loop ends, the run is marked suspended
RunnerSuspend ==
    /\ UNCHANGED nonPipeVars
    /\ ~procCrashed
    /\ rpc = "range"
    /\ taskChClosed
    /\ \A t \in Tasks : tstate[t] # "emitted"
    /\ rpc' = "update"
    /\ runState' = "suspended"
    /\ UNCHANGED <<taskKind, edges, tstate, results, taskChClosed, procCrashed>>

HasFatalErrors ==
    \E t \in Tasks : Terminal(t) /\ results[t] \in {"error", "ErrRunPanicked"}

\* run: results, errors and the final state are written, run returns
RunnerUpdate ==
    /\ UNCHANGED nonPipeVars
    /\ ~procCrashed
    /\ rpc = "update"
    /\ rpc' = "returned"
    /\ runState' = IF HasFatalErrors THEN "errored" ELSE "completed"
    /\ UNCHANGED <<taskKind, edges, tstate, results, taskChClosed, procCrashed>>

NextPipe ==
    \/ \E t \in Tasks : SchedEmit(t)
    \/ SchedClose
    \/ \E t \in Tasks : RunnerSpawn(t)
    \/ \E t \in Tasks : WorkerReturn(t)
    \/ \E t \in Tasks : WorkerPanic(t)
    \/ \E t \in Tasks : WorkerRecover(t)
    \/ RunnerSuspend
    \/ RunnerUpdate

SpecPipe == InitPipe /\ [][NextPipe]_vars

----------------------------------------------------------------------------
(* The Stork reconnect driver (unnamed/part_001, utils/ws.go)              *)

GiveUpEarly(n) == n >= MaxRetriesReConnectWebSocket

\* ConnectWebSocket gives up once retries exceeds maxRetries
GiveUp(n) == n > MaxRetriesReConnectWebSocket

\* connectIn is left as the loop found it
ConnectInKept == connectIn

\* connectIn after the first pass of the loop
ConnectInNext == ReconnectDelay

\* select: ctx.Done
ReconnectStop ==
    /\ UNCHANGED nonReconnVars
    /\ UNCHANGED storkVars
    /\ rdpc = "wait"
    /\ ctxDone
    /\ rdpc' = "done"
    /\ UNCHANGED <<connectIn, retries, lastWait, gaveUp, restarted>>

\* select: time.After(connectIn) fires; ConnectWebSocket is entered
ReconnectWaitDone ==
    /\ UNCHANGED nonReconnVars
    /\ UNCHANGED storkVars
    /\ rdpc = "wait"
    /\ rdpc' = "dial"
    /\ lastWait' = connectIn
    /\ connectIn' = ConnectInNext
    /\ retries' = 0
    /\ UNCHANGED <<gaveUp, restarted>>

\* DialContext returned and ctx.Err() is not nil: ConnectWebSocket returns the
\* error and the driver continues its loop
ReconnectDialCancelled ==
    /\ UNCHANGED nonReconnVars
    /\ UNCHANGED storkVars
    /\ rdpc = "dial"
    /\ ctxDone
    /\ rdpc' = "wait"
    /\ UNCHANGED <<connectIn, retries, lastWait, gaveUp, restarted>>

\* the dial fails: one more retry, or the call gives up and the driver continues
ReconnectDialFail ==
    /\ UNCHANGED nonReconnVars
    /\ UNCHANGED storkVars
    /\ rdpc = "dial"
    /\ ~ctxDone
    /\ retries' = retries + 1
    /\ IF GiveUp(retries + 1)
       THEN rdpc' = "wait" /\ gaveUp' = TRUE
       ELSE rdpc' = "dialWait" /\ UNCHANGED gaveUp
    /\ UNCHANGED <<connectIn, lastWait, restarted>>

\* the 5 s timer between two dials fires
ReconnectRetryTimer ==
    /\ UNCHANGED nonReconnVars
    /\ UNCHANGED storkVars
    /\ rdpc = "dialWait"
    /\ rdpc' = "dial"
    /\ UNCHANGED <<connectIn, retries, lastWait, gaveUp, restarted>>

\* ctx.Done while waiting between two dials
ReconnectRetryCancel ==
    /\ UNCHANGED nonReconnVars
    /\ UNCHANGED storkVars
    /\ rdpc = "dialWait"
    /\ ctxDone
    /\ rdpc' = "wait"
    /\ UNCHANGED <<connectIn, retries, lastWait, gaveUp, restarted>>

\* the dial succeeds and the driver calls Start on the connection
ReconnectDialOk ==
    /\ UNCHANGED nonReconnVars
    /\ rdpc = "dial"
    /\ ~ctxDone
    /\ rdpc' = "start"
    /\ gaveUp' = FALSE
    /\ restarted' = (fpc = "returned")
    /\ StartCall
    /\ UNCHANGED <<connectIn, retries, lastWait>>

\* Start has returned; the error is logged and the loop goes round
ReconnectStartReturned ==
    /\ UNCHANGED nonReconnVars
    /\ UNCHANGED storkVars
    /\ rdpc = "start"
    /\ fpc = "returned"
    /\ rdpc' = "wait"
    /\ UNCHANGED <<connectIn, retries, lastWait, gaveUp, restarted>>

ReconnectStep ==
    \/ ReconnectStop
    \/ ReconnectWaitDone
    \/ ReconnectDialCancelled
    \/ ReconnectDialFail
    \/ ReconnectRetryTimer
    \/ ReconnectRetryCancel
    \/ ReconnectDialOk
    \/ ReconnectStartReturned

StorkSubscribe == StorkSubscribeOk \/ StorkSubscribeErr

InitReconnect == InitBatch

NextReconnect ==
    \/ Cancel
    \/ ReconnectStop
    \/ ReconnectWaitDone
    \/ ReconnectDialCancelled
    \/ ReconnectDialFail
    \/ ReconnectRetryTimer
    \/ ReconnectRetryCancel
    \/ ReconnectDialOk
    \/ ReconnectStartReturned
    \/ StorkSubscribeOk
    \/ StorkSubscribeErr
    \/ StorkReadErr
    \/ StorkReadInvalid
    \/ \E type \in StorkIgnoredTypes : StorkReadIgnored(type)
    \/ \E data \in StorkFrames : StorkReadPrices(data)

SpecReconnect == InitReconnect /\ [][NextReconnect]_vars

\* goroutines keep running, a pending ctx.Done is taken, a websocket write
\* completes, and a dial that is retried for ever succeeds at some point; what
\* the server sends, and when, is not constrained
FairReconnect ==
    /\ SpecReconnect
    /\ WF_vars(ReconnectStep)
    /\ SF_vars(ReconnectStop)
    /\ SF_vars(ReconnectDialOk)
    /\ WF_vars(StorkSubscribe)

----------------------------------------------------------------------------
(* Feed loading (unnamed/part_001, NewService, the puller constructors)    *)

\* pullInterval strings of a feed config; "" is an absent field
PullIntervals == {"", "abc", "500ms", "1s", "2s"}

\* time.ParseDuration, in milliseconds
ParseDuration(str) ==
    CASE str = "500ms" -> [err |-> Nil, ms |-> 500]
      [] str = "1s" -> [err |-> Nil, ms |-> 1000]
      [] str = "2s" -> [err |-> Nil, ms |-> 2000]
      [] OTHER -> [err |-> "invalid duration", ms |-> 0]

\* errors.Wrapf returns nil when the wrapped error is nil
Wrapf(err, msg) == IF err = Nil THEN Nil ELSE msg

\* oracleType strings of a feed config; "" is an absent field
OracleTypeNames == {"", "Stork", "ChainlinkDataStreams", "Bogus"}

\* oracletypes.OracleType_value has the name
OracleTypeExists(name) == name \in {"Stork", "ChainlinkDataStreams"}

FeedProviderNames == {"stork", "chainlink", "binance"}

\* a TOML file: one that does not parse, or a feed config
FeedFiles ==
    {[tomlOk |-> FALSE, provider |-> "", pullInterval |-> "", oracleType |-> ""]}
    \cup [tomlOk : {TRUE}, provider : FeedProviderNames,
          pullInterval : PullIntervals, oracleType : OracleTypeNames]

NilPuller == [isNil |-> TRUE, provider |-> "", interval |-> 0, oracleType |-> ""]

\* NewStorkPriceFeed / NewChainlinkPriceFeed: the puller and the error returned
NewPriceFeed(cfg, defaultType) ==
    LET d == ParseDuration(cfg.pullInterval)
    IN  IF cfg.pullInterval # "" /\ d.err # Nil
        THEN [puller |-> NilPuller, err |-> Wrapf(d.err, "failed to parse pull interval")]
        ELSE IF cfg.pullInterval # "" /\ d.ms < 1000
        THEN [puller |-> NilPuller, err |-> Wrapf(d.err, "minimum interval = 1s")]
        ELSE IF cfg.oracleType # "" /\ ~OracleTypeExists(cfg.oracleType)
        THEN [puller |-> NilPuller, err |-> "oracle type does not exist"]
        ELSE [puller |-> [isNil |-> FALSE,
                          provider |-> cfg.provider,
                          interval |-> IF cfg.pullInterval # "" THEN d.ms ELSE 60000,
                          oracleType |-> IF cfg.oracleType = "" THEN defaultType
                                         ELSE cfg.oracleType],
              err |-> Nil]

NewStorkPriceFeed(cfg) == NewPriceFeed(cfg, "Stork")

NewChainlinkPriceFeed(cfg) == NewPriceFeed(cfg, "ChainlinkDataStreams")

InitLoad ==
    /\ BatcherOnly
    /\ StorkIdle
    /\ PipeIdle
    /\ ReconnIdle
    /\ CacheIdle
    /\ ChainlinkIdle
    /\ DynIdle
    /\ ClockIdle
    /\ HistIdle
    /\ cfgFiles \in UNION {[1 .. n -> FeedFiles] : n \in 0 .. MaxFiles}
    /\ lpc = "walk"
    /\ lIdx = 1
    /\ feedConfigs = <<>>
    /\ pricePullers = <<>>

\* WalkDir callback: a file that does not parse is logged and skipped
LoadFile ==
    /\ UNCHANGED nonLoadVars
    /\ lpc = "walk"
    /\ lIdx <= Len(cfgFiles)
    /\ feedConfigs' = IF cfgFiles[lIdx].tomlOk
                      THEN Append(feedConfigs, cfgFiles[lIdx])
                      ELSE feedConfigs
    /\ lIdx' = lIdx + 1
    /\ UNCHANGED <<cfgFiles, lpc, pricePullers>>

\* the walk is over, NewService is called
LoadDone ==
    /\ UNCHANGED nonLoadVars
    /\ lpc = "walk"
    /\ lIdx > Len(cfgFiles)
    /\ lpc' = "construct"
    /\ lIdx' = 1
    /\ UNCHANGED <<cfgFiles, feedConfigs, pricePullers>>

\* NewService: one feed config; a constructor error is returned to the
\* command, which ends with log.Fatalln
ConstructFeed ==
    /\ UNCHANGED nonLoadVars
    /\ lpc = "construct"
    /\ lIdx <= Len(feedConfigs)
    /\ LET cfg == feedConfigs[lIdx]
           r == IF cfg.provider = "stork" THEN NewStorkPriceFeed(cfg)
                ELSE NewChainlinkPriceFeed(cfg)
       IN  IF cfg.provider \notin {"stork", "chainlink"}
           THEN UNCHANGED <<lpc, pricePullers>>
           ELSE IF r.err # Nil
           THEN lpc' = "fatal" /\ UNCHANGED pricePullers
           ELSE pricePullers' = Append(pricePullers, r.puller) /\ UNCHANGED lpc
    /\ lIdx' = lIdx + 1
    /\ UNCHANGED <<cfgFiles, feedConfigs>>

\* NewService returns the service
ConstructDone ==
    /\ UNCHANGED nonLoadVars
    /\ lpc = "construct"
    /\ lIdx > Len(feedConfigs)
    /\ lpc' = "start"
    /\ UNCHANGED <<cfgFiles, lIdx, feedConfigs, pricePullers>>

\* Start: pricePuller.Provider() on a nil puller panics; Start recovers and
\* returns the error, and the command exits with status 1
ServiceStart ==
    /\ UNCHANGED nonLoadVars
    /\ lpc = "start"
    /\ lpc' = IF \E i \in DOMAIN pricePullers : pricePullers[i].isNil
              THEN "exited" ELSE "running"
    /\ UNCHANGED <<cfgFiles, lIdx, feedConfigs, pricePullers>>

NextLoad ==
    \/ LoadFile
    \/ LoadDone
    \/ ConstructFeed
    \/ ConstructDone
    \/ ServiceStart

SpecLoad == InitLoad /\ [][NextLoad]_vars

----------------------------------------------------------------------------
(* Properties                                                              *)

AcksOf(log) == {i \in DOMAIN log : log[i].ok}
FlushedIds == UNION {flushLog[i].ids : i \in DOMAIN flushLog}
CancelFlushes == {i \in DOMAIN flushLog : flushLog[i].reason = "cancel"}

\* C1: within a flush the clients are called in list order, each at most once
\* and only after every earlier client has failed on this batch; a flushed
\* batch (acknowledged or dropped) is never part of a later flush.
C1_FailoverInOrder ==
    /\ \A i \in DOMAIN attemptLog :
        /\ attemptLog[i].client \in Clients
        /\ \A c \in 1 .. (attemptLog[i].client - 1) :
              \E j \in 1 .. (i - 1) : attemptLog[j].client = c /\ ~attemptLog[j].ok
        /\ \A j \in 1 .. (i - 1) : attemptLog[j].client # attemptLog[i].client
    /\ \A i, j \in DOMAIN flushLog :
          i # j => flushLog[i].ids \cap flushLog[j].ids = {}
    /\ Ids(pricesBatch) \cap FlushedIds = {}

\* every client failed on a non-empty batch and the batch is dropped
C1_Witness ==
    /\ bpc = "select"
    /\ Len(attemptLog) = NumClients
    /\ AcksOf(attemptLog) = {}
    /\ flushLog # <<>>
    /\ flushLog[Len(flushLog)].ids # {}

\* C2: a flushed batch is acknowledged by at most one client, no client is
\* called after the acknowledgement, and a finished flush was either
\* acknowledged by exactly one client or failed on every client.
C2_OneAckOrDropped ==
    /\ Cardinality(AcksOf(attemptLog)) <= 1
    /\ \A i \in AcksOf(attemptLog) : i = Len(attemptLog)
    /\ (bpc # "submit" /\ attemptLog # <<>>) =>
          \/ Cardinality(AcksOf(attemptLog)) = 1
          \/ {attemptLog[i].client : i \in DOMAIN attemptLog} = Clients

\* the second client acknowledged the batch the first one failed on
C2_Witness ==
    /\ bpc # "submit"
    /\ Len(attemptLog) = 2
    /\ ~attemptLog[1].ok
    /\ attemptLog[2].ok
    /\ attemptLog[2].client = 2

C3_State ==
    /\ Cardinality(CancelFlushes) <= 1
    /\ CancelFlushes # {} =>
          /\ CancelFlushes = {Len(flushLog)}
          /\ ctxDone
          /\ bpc = "done" \/ (bpc = "submit" /\ sub.final)
          /\ pricesBatch = EmptyMap
    /\ (bpc = "done" /\ ~chanClosed) => Cardinality(CancelFlushes) = 1

C3_Step ==
    /\ (bpc = "select" /\ ctxDone /\ bpc' # "select" /\ flushLog' # flushLog
          /\ flushLog'[Len(flushLog')].reason = "cancel") =>
             flushLog' = Append(flushLog, [reason |-> "cancel", ids |-> Ids(pricesBatch)])
    /\ bpc = "done" => UNCHANGED batcherVars

\* C3: once the batcher takes the cancellation it hands the batch it holds to
\* exactly one flush (reason cancel), keeps nothing back, returns when that
\* flush is over and starts no flush afterwards.
C3_OneFinalFlush == [](C3_State) /\ [][C3_Step]_vars

\* the batcher returned after a final flush of three observations
C3_Witness ==
    /\ bpc = "done"
    /\ flushLog # <<>>
    /\ flushLog[Len(flushLog)].reason = "cancel"
    /\ Cardinality(flushLog[Len(flushLog)].ids) = 3
    /\ attemptLog # <<>>

\* C4: after cancellation every driver terminates.
C4_DriversTerminate == ctxDone ~> (\A t \in Tickers : dpc[t] = "done")

\* C5: every enqueue on the output channel completes.
C5_SendCompletes == \A t \in Tickers : (dpc[t] = "send") ~> (dpc[t] # "send")

\* C6: a flushed batch holds at most 100 entries, the batch in the making
\* stays below 100, and every flush has one of four reasons: full (the batch
\* reached 100), timer, close (the channel is closed), cancel (the context is
\* cancelled).
C6_FlushBounded ==
    /\ Cardinality(DOMAIN pricesBatch) < 100
    /\ Cardinality(DOMAIN sub.batch) <= 100
    /\ \A i \in DOMAIN flushLog :
        /\ Cardinality(flushLog[i].ids) <= 100
        /\ flushLog[i].reason \in {"full", "timer", "close", "cancel"}
        /\ flushLog[i].reason = "full" => Cardinality(flushLog[i].ids) = 100
        /\ flushLog[i].reason = "cancel" => ctxDone
        /\ flushLog[i].reason = "close" => chanClosed

\* a flush of 100 entries because the batch is full, then one of the rest
C6_Witness ==
    /\ Len(flushLog) = 2
    /\ flushLog[1].reason = "full"
    /\ Cardinality(flushLog[1].ids) = 100
    /\ flushLog[2].reason = "timer"
    /\ Cardinality(flushLog[2].ids) = 2

SameKey(a, b) == a.otype = b.otype /\ a.symbol = b.symbol
LastOfKey(i) == \A j \in DOMAIN window : j > i => ~SameKey(window[j], window[i])

\* C7: the batch holds exactly one entry per (oracle type, symbol) accepted
\* since the last flush, and that entry is the last accepted observation of
\* that pair.
C7_LastWins ==
    /\ Cardinality(DOMAIN pricesBatch)
          = Cardinality({<<window[i].otype, window[i].symbol>> : i \in DOMAIN window})
    /\ \A i \in DOMAIN window :
          LastOfKey(i) =>
             \E k \in DOMAIN pricesBatch :
                /\ pricesBatch[k] = window[i]
                /\ \A k2 \in DOMAIN pricesBatch :
                      SameKey(pricesBatch[k2], window[i]) => k2 = k

\* an overwrite, next to an entry of the same symbol and another oracle type
C7_Witness ==
    /\ Len(window) = 3
    /\ SameKey(window[1], window[3])
    /\ window[2].symbol = window[1].symbol
    /\ window[2].otype # window[1].otype
    /\ Cardinality(DOMAIN pricesBatch) = 2

----------------------------------------------------------------------------
(* Stork properties                                                        *)

\* C8: once the latest frame data of an asset violated the 500 ms spread, a
\* PullPrice of that asset returns no observation until a later frame for the
\* asset within the spread is accepted.
C8_RejectedSkipsCycle ==
    \A a \in StorkTickers :
        (rejected[a] /\ pulled[a].called) => ~pulled[a].data

\* C10: after an invalid_message frame Start has returned ErrInvalidMessage, the
\* pair cache is empty and the connection is closed.
C10_InvalidMessageResets ==
    lastFrame = "invalid_message" =>
        /\ fpc = "returned"
        /\ startErr = "ErrInvalidMessage"
        /\ latestPairs = EmptyMap
        /\ ~connOpen

C10_Witness ==
    /\ lastFrame = "invalid_message"
    /\ startErr = "ErrInvalidMessage"
    /\ cachedAtReturn > 0
    /\ latestPairs = EmptyMap

----------------------------------------------------------------------------
(* Pipeline properties                                                     *)

\* C9: once the worker of a panicking task has finished handling the panic, a
\* result carrying ErrRunPanicked has been reported for the task and the panic
\* has not escaped the worker.
C9_PanicReported ==
    \A t \in Tasks :
        (taskKind[t] \in {"panicString", "panicError"}
            /\ tstate[t] \in {"settled", "escaped"})
        => (results[t] = "ErrRunPanicked" /\ ~procCrashed)

----------------------------------------------------------------------------
(* Reconnect driver properties                                             *)

\* C11: once the parent context is cancelled the Stork reconnect driver
\* eventually leaves its loop.
C11_ReconnectStops == ctxDone ~> (rdpc = "done")

\* C12: the cycle that follows a return of Start was preceded by a wait of 5 s,
\* Start is only called from a successful dial, and after Start returned with an
\* error while the context is not cancelled, Start is eventually called again
\* (or the context is cancelled first).
C12_WaitedBeforeRestart ==
    (rdpc \in {"dial", "dialWait"} /\ fpc = "returned") => lastWait = ReconnectDelay

C12_StartFromDial ==
    (fpc # "subscribe" /\ fpc' = "subscribe") => (rdpc = "dial" /\ rdpc' = "start")

C12_RestartAfterFailure ==
    /\ []C12_WaitedBeforeRestart
    /\ [][C12_StartFromDial]_vars
    /\ (fpc = "returned" /\ startErr # Nil /\ ~ctxDone)
          ~> (fpc = "subscribe" \/ ctxDone)

C12_Witness ==
    /\ restarted
    /\ rdpc = "start"
    /\ fpc = "reading"
    /\ lastWait = ReconnectDelay
    /\ ~ctxDone

\* C13: one ConnectWebSocket call dials at most 1 + 5 times, with the 5 s wait
\* between two dials; it gives up exactly when the fifth retry has failed, the
\* driver then goes back to its wait for a new cycle, and it leaves its loop
\* only on cancellation.
C13_State ==
    /\ retries <= MaxRetriesReConnectWebSocket + 1
    /\ rdpc \in {"dial", "dialWait"} => retries <= MaxRetriesReConnectWebSocket
    /\ rdpc = "done" => ctxDone

C13_Step ==
    /\ (rdpc = "dial" /\ rdpc' = "wait" /\ ~ctxDone)
          => retries' = MaxRetriesReConnectWebSocket + 1
    /\ (rdpc = "dial" /\ retries' = retries + 1
            /\ retries' <= MaxRetriesReConnectWebSocket)
          => rdpc' = "dialWait"

C13_DialRetriesBounded == []C13_State /\ [][C13_Step]_vars

C13_Witness ==
    /\ gaveUp
    /\ rdpc = "dialWait"
    /\ ~ctxDone

----------------------------------------------------------------------------
(* Driver retry policy                                                     *)

\* C14: when a cycle retries PullPrice it has made at most 3 retries after the
\* first attempt, the attempts are 1 s apart, and all of them run under the one
\* request deadline created for the cycle.
C14_RetryPolicy ==
    \A t \in Tickers :
        (dpc[t] = "pull" /\ dAttempt[t] > 0)
        => /\ dAttempt[t] <= 3
           /\ RetrySleepMs = 1000
           /\ RequestCtxsCreated(t) = 1

----------------------------------------------------------------------------
(* Chainlink observations in the batcher                                   *)

C16_Accepted ==
    (/\ bpc = "select"
     /\ dataC # <<>>
     /\ Len(dataC') < Len(dataC)
     /\ Head(dataC).kind = "chainlink"
     /\ Head(dataC).otype = ChainlinkPriceData(1, 1).otype
     /\ Head(dataC).report = "report")
    => \/ \E i \in DOMAIN window' : window'[i].id = Head(dataC).id
       \/ /\ flushLog' # flushLog
          /\ Head(dataC).id \in flushLog'[Len(flushLog')].ids
          /\ composeChainlinkOracleMsgs(sub'.batch) # {}

C16_ChainlinkPullerAccepted == [][C16_Accepted]_vars

----------------------------------------------------------------------------
(* Feed loading properties                                                 *)

\* C17: the registry holds no puller for a feed whose pullInterval is below
\* 1 s: every entry is a puller, and its Interval() is at least 1 s.
C17_IntervalAtLeastOneSecond ==
    \A i \in DOMAIN pricePullers :
        /\ ~pricePullers[i].isNil
        /\ pricePullers[i].interval >= 1000

\* C18: a config error in a feed is never fatal: loading never ends the
\* process, and once the service runs it runs a puller for every valid feed.
ValidFeed(f) ==
    /\ f.tomlOk
    /\ f.provider \in {"stork", "chainlink"}
    /\ f.pullInterval \in {"", "1s", "2s"}
    /\ f.oracleType \in {"", "Stork", "ChainlinkDataStreams"}

C18_ConfigErrorNotFatal ==
    /\ lpc \notin {"fatal", "exited"}
    /\ lpc = "running" =>
          Len(pricePullers) = Cardinality({i \in DOMAIN cfgFiles : ValidFeed(cfgFiles[i])})

----------------------------------------------------------------------------
(* The Stork cache under its lock: the fetcher's update and a reader       *)

MaxCacheFrames == 2

\* an empty AssetPair for the data variant src of frame n
EmptyPair(src, n) == [assetId |-> "", signedPrices |-> <<>>, src |-> src, frame |-> n]

\* the update writes into the pair the cache already holds for the asset
ReusePublishedPair(a, src, n) ==
    IF a \in DOMAIN pairPtr
    THEN [id |-> pairPtr[a], heap |-> [heap EXCEPT ![pairPtr[a]] = EmptyPair(src, n)]]
    ELSE [id |-> Len(heap) + 1, heap |-> Append(heap, EmptyPair(src, n))]

\* ConvertDataToAssetPair builds its result in a new object
NewPair(a, src, n) ==
    [id |-> Len(heap) + 1, heap |-> Append(heap, EmptyPair(src, n))]

\* an oracle_prices frame arrives: the asset ids that pass getTimestampInRange
\* are the ones to convert
CacheFrame(data) ==
    /\ UNCHANGED nonCacheVars
    /\ wpc = "idle"
    /\ wFrames < MaxCacheFrames
    /\ wFrames' = wFrames + 1
    /\ wData' = data
    /\ wTodo' = {a \in DOMAIN data : getTimestampInRange(StorkData(data[a])).err = Nil}
    /\ wNewPairs' = EmptyMap
    /\ wpc' = "convert"
    /\ UNCHANGED <<mu, heap, pairPtr, wObj, crpc, rTicker, rPtr, rObs>>

\* ConvertDataToAssetPair begins for one asset id
CacheConvertBegin(a) ==
    /\ UNCHANGED nonCacheVars
    /\ wpc = "convert"
    /\ wObj = NoObj
    /\ a \in wTodo
    /\ LET t == NewPair(a, wData[a], wFrames)
       IN  /\ heap' = t.heap
           /\ wObj' = [id |-> t.id, asset |-> a, i |-> 1]
    /\ UNCHANGED <<mu, pairPtr, wpc, wData, wTodo, wNewPairs, wFrames,
                   crpc, rTicker, rPtr, rObs>>

\* one iteration of the loop over data.SignedPrices
CacheConvertPrice ==
    /\ UNCHANGED nonCacheVars
    /\ wpc = "convert"
    /\ wObj # NoObj
    /\ LET prices == StorkData(wData[wObj.asset])
           ref == ConvertTimestampToSecond(getTimestampInRange(prices).ts)
           c == ConvertSignedPrice(prices[wObj.i])
       IN  /\ wObj.i <= Len(prices)
           /\ heap' = IF c.timestamp # ref THEN heap
                      ELSE [heap EXCEPT ![wObj.id].signedPrices = Append(@, c)]
    /\ wObj' = [wObj EXCEPT !.i = @ + 1]
    /\ UNCHANGED <<mu, pairPtr, wpc, wData, wTodo, wNewPairs, wFrames,
                   crpc, rTicker, rPtr, rObs>>

\* the loop is over: the asset id is set and the pair goes into newPairs
CacheConvertEnd ==
    /\ UNCHANGED nonCacheVars
    /\ wpc = "convert"
    /\ wObj # NoObj
    /\ wObj.i > Len(StorkData(wData[wObj.asset]))
    /\ heap' = [heap EXCEPT ![wObj.id].assetId = wObj.asset]
    /\ wNewPairs' = [a \in DOMAIN wNewPairs \cup {wObj.asset} |->
                       IF a = wObj.asset THEN wObj.id ELSE wNewPairs[a]]
    /\ wTodo' = wTodo \ {wObj.asset}
    /\ wObj' = NoObj
    /\ UNCHANGED <<mu, pairPtr, wpc, wData, wFrames, crpc, rTicker, rPtr, rObs>>

\* f.mu.Lock(): waits for the readers to leave
CacheLock ==
    /\ UNCHANGED nonCacheVars
    /\ wpc = "convert"
    /\ wObj = NoObj
    /\ wTodo = {}
    /\ mu = [w |-> FALSE, r |-> 0]
    /\ mu' = [w |-> TRUE, r |-> 0]
    /\ wpc' = "locked"
    /\ UNCHANGED <<heap, pairPtr, wData, wTodo, wObj, wNewPairs, wFrames,
                   crpc, rTicker, rPtr, rObs>>

\* f.latestPairs[key] = v, one key of newPairs at a time
CachePublish(key) ==
    /\ UNCHANGED nonCacheVars
    /\ wpc = "locked"
    /\ key \in DOMAIN wNewPairs
    /\ pairPtr' = [a \in DOMAIN pairPtr \cup {key} |->
                     IF a = key THEN wNewPairs[key] ELSE pairPtr[a]]
    /\ wNewPairs' = [a \in DOMAIN wNewPairs \ {key} |-> wNewPairs[a]]
    /\ UNCHANGED <<mu, heap, wpc, wData, wTodo, wObj, wFrames,
                   crpc, rTicker, rPtr, rObs>>

\* f.mu.Unlock()
CacheUnlock ==
    /\ UNCHANGED nonCacheVars
    /\ wpc = "locked"
    /\ wNewPairs = EmptyMap
    /\ mu' = [w |-> FALSE, r |-> 0]
    /\ wpc' = "idle"
    /\ UNCHANGED <<heap, pairPtr, wData, wTodo, wObj, wNewPairs, wFrames,
                   crpc, rTicker, rPtr, rObs>>

\* reset: under the lock the map is replaced by an empty one
CacheReset ==
    /\ UNCHANGED nonCacheVars
    /\ wpc = "idle"
    /\ wFrames > 0
    /\ mu = [w |-> FALSE, r |-> 0]
    /\ pairPtr # EmptyMap
    /\ pairPtr' = EmptyMap
    /\ UNCHANGED <<mu, heap, wpc, wData, wTodo, wObj, wNewPairs, wFrames,
                   crpc, rTicker, rPtr, rObs>>

\* AssetPair(ticker): f.mu.RLock()
ReaderRLock(ticker) ==
    /\ UNCHANGED nonCacheVars
    /\ crpc = "idle"
    /\ ~mu.w
    /\ mu' = [mu EXCEPT !.r = @ + 1]
    /\ rTicker' = ticker
    /\ crpc' = "rlocked"
    /\ UNCHANGED <<heap, pairPtr, wpc, wData, wTodo, wObj, wNewPairs, wFrames,
                   rPtr, rObs>>

\* return f.latestPairs[ticker] and the deferred RUnlock
ReaderReturn ==
    /\ UNCHANGED nonCacheVars
    /\ crpc = "rlocked"
    /\ rPtr' = IF rTicker \in DOMAIN pairPtr THEN pairPtr[rTicker] ELSE 0
    /\ mu' = [mu EXCEPT !.r = @ - 1]
    /\ crpc' = IF rTicker \in DOMAIN pairPtr THEN "use" ELSE "idle"
    /\ UNCHANGED <<heap, pairPtr, wpc, wData, wTodo, wObj, wNewPairs, wFrames,
                   rTicker, rObs>>

\* PullPrice and the batcher read the pair's fields through the pointer,
\* without the lock
ReaderUse ==
    /\ UNCHANGED nonCacheVars
    /\ crpc = "use"
    /\ rObs' = heap[rPtr]
    /\ crpc' = "idle"
    /\ UNCHANGED <<mu, heap, pairPtr, wpc, wData, wTodo, wObj, wNewPairs, wFrames,
                   rTicker, rPtr>>

NextCache ==
    \/ \E data \in StorkFrames : CacheFrame(data)
    \/ \E a \in StorkTickers : CacheConvertBegin(a)
    \/ CacheConvertPrice
    \/ CacheConvertEnd
    \/ CacheLock
    \/ \E key \in StorkTickers : CachePublish(key)
    \/ CacheUnlock
    \/ CacheReset
    \/ \E ticker \in StorkTickers : ReaderRLock(ticker)
    \/ ReaderReturn
    \/ ReaderUse

SpecCache == InitBatch /\ [][NextCache]_vars

\* the pair ConvertDataToAssetPair returns for the data the object was built from
CompletePair(o) ==
    LET prices == StorkData(o.src)
    IN  /\ o.assetId # ""
        /\ o.signedPrices =
             ConvertDataToAssetPair(prices, o.assetId,
                                    getTimestampInRange(prices).ts, o.frame).signedPrices

\* the pairs some reader can reach: in the cache, or handed out by AssetPair
Published == Range(pairPtr) \cup (IF crpc = "use" THEN {rPtr} ELSE {})

\* C19: what a reader reads through the pointer AssetPair gave it is a complete
\* pair of one frame, a pair the cache or a reader holds is never written
\* again, and no reader holds the lock while the fetcher writes the map.
C19_ReadsComplete ==
    /\ rObs # NoObs => CompletePair(rObs)
    /\ \A id \in Published : CompletePair(heap[id])
    /\ ~(mu.w /\ mu.r > 0)

C19_PublishedUnchanged ==
    \A id \in Published : heap'[id] = heap[id]

C19_NoPartialUpdate == []C19_ReadsComplete /\ [][C19_PublishedUnchanged]_vars

\* a reader holds the pair of the first frame while the fetcher is converting
\* the second frame's data for the same asset
C19_Witness ==
    /\ crpc = "use"
    /\ heap[rPtr].frame = 1
    /\ wpc = "convert"
    /\ wObj.asset = rTicker
    /\ wObj.i = 2
    /\ heap[wObj.id].frame = 2

----------------------------------------------------------------------------
(* The Chainlink fetcher: Start, the read loop and Close                   *)

MaxReads == 4

ChainlinkFeedIds == {"feedA", "feedB"}

\* Start: the feed ids parse and client.Stream subscribes
ChainlinkStartOk ==
    /\ UNCHANGED nonChainlinkVars
    /\ clpc \in {"idle", "returned"}
    /\ clReads < MaxReads
    /\ clpc' = "reading"
    /\ stream' = "open"
    /\ clErr' = Nil
    /\ clLast' = Nil
    /\ UNCHANGED <<latestPrices, clReads, decodeErrs>>

\* Start: client.Stream fails and Start returns the error
ChainlinkStartErr ==
    /\ UNCHANGED nonChainlinkVars
    /\ clpc = "idle"
    /\ clpc' = "returned"
    /\ clErr' = "subscribeError"
    /\ UNCHANGED <<stream, latestPrices, clReads, decodeErrs, clLast>>

\* the select at the top of the loop finds ctx.Done()
CtxSeen == ctxDone

\* the loop returns ctx.Err()
ChainlinkCtxDone ==
    /\ UNCHANGED nonChainlinkVars
    /\ clpc = "reading"
    /\ CtxSeen
    /\ clpc' = "returned"
    /\ clErr' = "ctxErr"
    /\ UNCHANGED <<stream, latestPrices, clReads, decodeErrs, clLast>>

\* a read error ends Start
ReadErrReturns == "returned"

\* where the loop is after a read error: the handler ends in continue
AfterReadErr == "reading"

\* stream.Read returns an error: counted, logged, and the loop goes on
ChainlinkReadErr ==
    /\ UNCHANGED nonChainlinkVars
    /\ clpc = "reading"
    /\ clReads < MaxReads
    /\ clReads' = clReads + 1
    /\ clLast' = "readErr"
    /\ clpc' = AfterReadErr
    /\ clErr' = IF AfterReadErr = "returned" THEN "readError" ELSE clErr
    /\ UNCHANGED <<stream, latestPrices, decodeErrs>>

\* report.Decode fails: counted, logged, and the loop goes on
ChainlinkDecodeErr ==
    /\ UNCHANGED nonChainlinkVars
    /\ clpc = "reading"
    /\ stream = "open"
    /\ clReads < MaxReads
    /\ clReads' = clReads + 1
    /\ decodeErrs' = decodeErrs + 1
    /\ clLast' = "decodeErr"
    /\ UNCHANGED <<clpc, stream, latestPrices, clErr>>

\* a report decodes: the cache entry of its feed id is replaced under the lock
ChainlinkReportRead(feedID) ==
    /\ UNCHANGED nonChainlinkVars
    /\ clpc = "reading"
    /\ stream = "open"
    /\ clReads < MaxReads
    /\ clReads' = clReads + 1
    /\ clLast' = "report"
    /\ latestPrices' = [k \in DOMAIN latestPrices \cup {feedID} |->
                          IF k = feedID THEN clReads + 1 ELSE latestPrices[k]]
    /\ UNCHANGED <<clpc, stream, decodeErrs, clErr>>

\* Close: when f.stream is not nil the stream is closed and Close returns;
\* only with a nil stream is the cache replaced by an empty map
ChainlinkClose ==
    /\ UNCHANGED nonChainlinkVars
    /\ IF stream # "nil"
       THEN /\ stream' = "closed"
            /\ UNCHANGED latestPrices
       ELSE /\ latestPrices' = EmptyMap
            /\ UNCHANGED stream
    /\ UNCHANGED <<clpc, clReads, decodeErrs, clErr, clLast>>

NextChainlink ==
    \/ ChainlinkStartOk
    \/ ChainlinkStartErr
    \/ Cancel
    \/ ChainlinkCtxDone
    \/ ChainlinkReadErr
    \/ ChainlinkDecodeErr
    \/ \E feedID \in ChainlinkFeedIds : ChainlinkReportRead(feedID)
    \/ ChainlinkClose

SpecChainlink == InitBatch /\ [][NextChainlink]_vars

\* the loop is scheduled: once ctx is done the select takes that branch
FairChainlink == SpecChainlink /\ WF_vars(ChainlinkCtxDone)

\* C20: the step that handles a report that does not decode closes the
\* stream, clears the cache and makes Start return.
C20_DecodeErrorHandled ==
    decodeErrs' # decodeErrs
    => /\ clpc' = "returned"
       /\ stream' = "closed"
       /\ latestPrices' = EmptyMap

C20_DecodeErrorEndsStart == [][C20_DecodeErrorHandled]_vars

\* C21: once Close has closed the stream, the Chainlink cache holds no entry:
\* every ChainlinkReport lookup returns nil.
C21_CacheClearedOnClose ==
    stream = "closed" => latestPrices = EmptyMap

\* C22: a read error leaves Start running and the cache as it was, and once
\* the context is cancelled a running Start returns the context error.
C22_ReadErrStep ==
    (clReads' # clReads /\ clLast' = "readErr")
    => /\ clpc' = "reading"
       /\ latestPrices' = latestPrices

C22_ReadErrorContinues ==
    /\ [][C22_ReadErrStep]_vars
    /\ [](clErr # "readError")
    /\ (ctxDone /\ clpc = "reading") ~> (clpc = "returned" /\ clErr = "ctxErr")

\* Start has returned the context error after a read error and a cached report
C22_Witness ==
    /\ clpc = "returned"
    /\ clErr = "ctxErr"
    /\ clLast = "readErr"
    /\ latestPrices # EmptyMap

----------------------------------------------------------------------------
(* The dynamic feed's PullPrice (oracle/service.go, pipeline/common.go)    *)

MaxTerminals == 2

\* what a terminal task can leave as its value
DynValueKinds == {"decimal", "float64", "decimalString", "otherString", "bytes", "nil"}

TerminalResults == [value : DynValueKinds, error : BOOLEAN]

\* the runs ExecuteRun can meet: the DAG source does not parse, the run is
\* pending, or its terminal tasks have reported
DynRuns ==
    [parseErr : BOOLEAN, pending : BOOLEAN,
     terminals : UNION {[1 .. n -> TerminalResults] : n \in 1 .. MaxTerminals}]

\* run.State when run returns
RunStateOf(run) ==
    IF run.pending THEN "suspended"
    ELSE IF \E i \in DOMAIN run.terminals : run.terminals[i].error
         THEN "errored" ELSE "completed"

\* ExecuteRun: a pending run is returned with errors.Wrapf of a nil error
ExecuteRun(run) ==
    IF run.parseErr
    THEN [err |-> "parseError", state |-> "running", fatal |-> FALSE, trrs |-> <<>>]
    ELSE IF run.pending
    THEN [err |-> Wrapf(Nil, "unexpected async run"), state |-> RunStateOf(run),
          fatal |-> FALSE, trrs |-> <<>>]
    ELSE [err |-> Nil, state |-> RunStateOf(run),
          fatal |-> \E i \in DOMAIN run.terminals : run.terminals[i].error,
          trrs |-> run.terminals]

\* TaskRunResults.FinalResult: the values and errors of the terminal tasks
FinalResult(trrs) ==
    [values |-> [i \in DOMAIN trrs |-> trrs[i].value],
     fatalErrors |-> [i \in DOMAIN trrs |-> trrs[i].error]]

\* the final result has some terminal value
AtLeastOne(fr) == Len(fr.fatalErrors) >= 1 /\ Len(fr.values) >= 1

\* SingularResult's condition
ExactlyOne(fr) == Len(fr.fatalErrors) = 1 /\ Len(fr.values) = 1

SingularResult(fr) ==
    IF ~ExactlyOne(fr)
    THEN [err |-> "notSingular", value |-> "nil"]
    ELSE [err |-> Nil, value |-> fr.values[1]]

\* the conversion of the terminal value to a decimal price
PriceOf(value) ==
    CASE value = "decimal" -> Nil
      [] value = "float64" -> Nil
      [] value = "decimalString" -> Nil
      [] value = "otherString" -> "notADecimalString"
      [] OTHER -> "neitherDecimalFloatNorString"

Returned(data, err) == [called |-> TRUE, data |-> data, err |-> err]

\* dynamicPriceFeed.PullPrice
DynamicPullPrice(run) ==
    LET x == ExecuteRun(run)
        fr == FinalResult(x.trrs)
        res == SingularResult(fr)
    IN  IF x.err # Nil THEN Returned(FALSE, "failedToExecute")
        ELSE IF x.state # "completed"
        THEN IF x.fatal THEN Returned(FALSE, "fatalErrors")
             ELSE Returned(FALSE, "notCompleted")
        ELSE IF \E i \in DOMAIN fr.fatalErrors : fr.fatalErrors[i]
        THEN Returned(FALSE, "fatalErrors")
        ELSE IF res.err # Nil THEN Returned(FALSE, "notSingular")
        ELSE IF PriceOf(res.value) # Nil THEN Returned(FALSE, PriceOf(res.value))
        ELSE Returned(TRUE, Nil)

InitDyn ==
    /\ BatcherOnly
    /\ StorkIdle
    /\ PipeIdle
    /\ ReconnIdle
    /\ LoadIdle
    /\ CacheIdle
    /\ ChainlinkIdle
    /\ ClockIdle
    /\ HistIdle
    /\ dynRun \in DynRuns
    /\ dynOut = NotCalled

DynPull ==
    /\ UNCHANGED nonDynVars
    /\ dynOut = NotCalled
    /\ dynOut' = DynamicPullPrice(dynRun)
    /\ UNCHANGED dynRun

NextDyn == DynPull

SpecDyn == InitDyn /\ [][NextDyn]_vars

\* C24: PullPrice returns a PriceData exactly for a completed run without
\* fatal errors whose single terminal value is a decimal, a float64 or a
\* decimal string; otherwise it returns an error, and never (nil, nil).
C24_PriceOnlyFromSingleDecimal ==
    dynOut.called =>
        /\ dynOut.data <=>
              /\ ~dynRun.parseErr
              /\ ~dynRun.pending
              /\ \A i \in DOMAIN dynRun.terminals : ~dynRun.terminals[i].error
              /\ Len(dynRun.terminals) = 1
              /\ dynRun.terminals[1].value \in {"decimal", "float64", "decimalString"}
        /\ ~dynOut.data => dynOut.err # Nil
        /\ dynOut.data => dynOut.err = Nil

\* PullPrice has refused a completed run with two terminal decimals
C24_Witness ==
    /\ dynOut.called
    /\ ~dynOut.data
    /\ dynOut.err = "notSingular"
    /\ Len(dynRun.terminals) = 2

----------------------------------------------------------------------------
(* The final state of a pipeline run                                       *)

\* the task ended with an error
EndedWithError(t) == results[t] \in {"error", "ErrRunPanicked"}

\* C23: when run has returned, the run is errored exactly when a task without
\* outputs ended with an error, and completed otherwise.
C23_FinalState ==
    rpc = "returned" =>
        /\ runState \in {"errored", "completed"}
        /\ (runState = "errored") <=>
              (\E t \in Tasks : (\A u \in Tasks : <<t, u>> \notin edges) /\ EndedWithError(t))

\* a run has completed although a task that has an output ended with an error
C23_Witness ==
    /\ rpc = "returned"
    /\ runState = "completed"
    /\ \E t \in Tasks : EndedWithError(t) /\ (\E u \in Tasks : <<t, u>> \in edges)

----------------------------------------------------------------------------
(* Priced observations in the batcher                                      *)

PositiveIfPriced(pd) == pd.otype \in PricedOracleTypes => pd.price > 0

\* C26: an observation of kind PriceFeed or Provider that is in the batch, or
\* in the batch being submitted, has a positive price.
C26_NoNonPositivePrice ==
    /\ \A k \in DOMAIN pricesBatch : PositiveIfPriced(pricesBatch[k])
    /\ \A k \in DOMAIN sub.batch : PositiveIfPriced(sub.batch[k])
    /\ \A i \in DOMAIN window : PositiveIfPriced(window[i])

\* the batcher has taken the first two observations, dropped the first and
\* kept the second, a priced one
C26_Witness ==
    /\ flushLog = <<>>
    /\ nextId > 2
    /\ \A i \in DOMAIN dataC : dataC[i].id > 2
    /\ Len(window) = 1
    /\ window[1].id = 2
    /\ window[1].otype \in PricedOracleTypes

----------------------------------------------------------------------------
(* The verdict of a broadcast                                              *)

\* C27: a broadcast counts as successful exactly when the call returned no
\* error and the response carries a TxResponse with code 0; a failed broadcast
\* emits no submitted-count metric.
C27_SuccessIffCodeZero ==
    lastBroadcast.called =>
        /\ lastBroadcast.ok <=> (lastBroadcast.out \notin {"err", "noTxResponse", "codeNonZero"})
        /\ ~lastBroadcast.ok => lastBroadcast.metric = EmptyMap

\* a response without TxResponse has been counted as a failure
C27_Witness ==
    /\ lastBroadcast.called
    /\ lastBroadcast.out = "noTxResponse"
    /\ ~lastBroadcast.ok
    /\ attemptLog # <<>>

----------------------------------------------------------------------------
(* The drivers' cycles in time                                             *)

\* C28: a PullPrice that returns (nil, nil) ends the cycle: nothing is
\* enqueued, no further attempt is made, and the timer is reset to Interval().
C28_NilStep ==
    \A t \in Tickers :
        (lastPull[t] # "nil" /\ lastPull'[t] = "nil")
        => /\ dataC' = dataC
           /\ dpc'[t] = "select"
           /\ dResult'[t] = NoData
           /\ timerAt'[t] = now + Interval(t)

C28_NilIsNoOp == [][C28_NilStep]_vars

\* a cycle ended on (nil, nil) after the first timer, and nothing was enqueued
C28_Witness ==
    \E t \in Tickers :
        /\ lastPull[t] = "nil"
        /\ dpc[t] = "select"
        /\ now >= FirstTimerSec
        /\ timerAt[t] = now + PullIntervalSec
        /\ lastEmit[t] = -1

\* C29: two consecutive enqueues of a ticker's driver are at least Interval()
\* apart, and a pull only starts once the timer has fired.
C29_Gap ==
    \A t \in Tickers : prevEmit[t] >= 0 => lastEmit[t] - prevEmit[t] >= Interval(t)

C29_PullAfterTimer ==
    \A t \in Tickers : (dpc[t] = "select" /\ dpc'[t] = "pull") => now >= timerAt[t]

C29_EmissionsSpaced == []C29_Gap /\ [][C29_PullAfterTimer]_vars

\* a driver has enqueued twice, exactly one interval apart
C29_Witness ==
    \E t \in Tickers :
        /\ prevEmit[t] >= FirstTimerSec
        /\ lastEmit[t] = prevEmit[t] + PullIntervalSec

----------------------------------------------------------------------------
(* The Stork cache across a reconnection                                   *)

\* C30: a Stork PullPrice returns an observation only while Start is reading,
\* and only with a pair that came in a frame read since that Start was called:
\* from the return of Start to the first frame accepted on the next connection
\* every PullPrice returns (nil, nil).
C30_PullStep ==
    \A a \in StorkTickers :
        (pulled[a] = NotPulled /\ pulled'[a].called /\ pulled'[a].data)
        => /\ fpc = "reading"
           /\ pulled'[a].frame > startFrame

C30_NoObservationInGap == [][C30_PullStep]_vars

\* Start has returned with every ticker cached, and a PullPrice made after
\* that return came back with (nil, nil)
C30_Witness ==
    /\ fpc = "returned"
    /\ cachedAtReturn = Cardinality(StorkTickers)
    /\ \E a \in StorkTickers : pulled[a].called /\ ~pulled[a].data

----------------------------------------------------------------------------
(* The context of a pipeline task                                          *)

\* whether a context derived from the given parent is done by cancellation:
\* "run" is the context passed to run, "background" is context.Background()
ParentDone(parent) == parent = "run" /\ ctxDone

\* executeTaskRun derives the task's context from context.Background()
TaskCtxParent == "background"

\* the task's context is done by cancellation
TaskCtxCancelled(t) == ParentDone(TaskCtxParent)

\* a run during which the context passed to ExecuteRun can be cancelled
NextPipeCtx ==
    \/ Cancel
    \/ NextPipe

SpecPipeCtx == InitPipe /\ [][NextPipeCtx]_vars

\* C25: a task that is running when the context passed to the run is done
\* finds the context it was given cancelled.
C25_CancelReachesTasks ==
    \A t \in Tasks : (tstate[t] = "running" /\ ctxDone) => TaskCtxCancelled(t)

----------------------------------------------------------------------------
(* The Stork fetcher fed with timestamps of every unit                     *)

StorkUnitVariants == {"tight", "wide", "crossSecond", "milliTight", "milliWide",
                      "secondsWide"}

StorkUnitFrames ==
    UNION {[S -> StorkUnitVariants] : S \in (SUBSET StorkTickers) \ {{}}}

\* an oracle_prices frame is handled; what it carried is recorded
UnitReadPrices(data) ==
    /\ UNCHANGED nonStorkHistVars
    /\ StorkReadPricesCall(data)
    /\ lastData' = [a \in StorkTickers |->
                      IF a \in DOMAIN data THEN data[a] ELSE "none"]
    /\ UNCHANGED <<tsIn, tsOut, provBatch, provMsgs, inFlight>>

NextStorkUnits ==
    \/ StorkStart
    \/ StorkSubscribeOk
    \/ StorkReadErr
    \/ \E data \in StorkUnitFrames : UnitReadPrices(data)
    \/ \E a \in StorkTickers : StorkPullPrice(a)

SpecStorkUnits == InitStork /\ [][NextStorkUnits]_vars

\* the spread of the timestamps of a converted pair, which are seconds
SpreadSeconds(pair) ==
    TsSub(NewestTimestamp(pair.signedPrices), OldestTimestamp(pair.signedPrices))

\* C31: every AssetPair a Stork puller emits has its newest and oldest
\* signed-price timestamps at most 500 ms apart.
C31_EmittedSpreadBounded ==
    \A a \in StorkTickers :
        (pulled[a].data /\ a \in DOMAIN latestPairs)
        => LET d == SpreadSeconds(latestPairs[a])
           IN  d.hi = 0 /\ d.lo * 1000 <= 500

\* a pair is emitted whose frame data crossed a second boundary within 500 ms
C31_Witness ==
    \E a \in StorkTickers :
        /\ pulled[a].data
        /\ a \in DOMAIN latestPairs
        /\ lastData[a] = "crossSecond"
        /\ Len(latestPairs[a].signedPrices) = 1

\* a publisher timestamp in nanoseconds, its unit taken from its magnitude
ToNanosecond(ts) ==
    CASE TsAbove(ts, 1000000000) -> ts
      [] TsAbove(ts, 1000000) ->
           Ts(ts.hi * 1000 + (ts.lo \div 1000000), (ts.lo % 1000000) * 1000)
      [] TsAbove(ts, 1000) ->
           Ts(ts.hi * 1000000 + (ts.lo \div 1000), (ts.lo % 1000) * 1000000)
      [] OTHER -> Ts(ts.hi * 1000000000 + ts.lo, 0)

RECURSIVE InNanoseconds(_)
InNanoseconds(prices) ==
    IF prices = <<>> THEN <<>>
    ELSE <<SignedPrice(Head(prices).publisherKey, ToNanosecond(Head(prices).timestamp))>>
         \o InNanoseconds(Tail(prices))

\* newest and oldest publisher timestamps are more than 500 000 000 ns apart
SpreadExceeded(prices) ==
    LET ns == InNanoseconds(prices)
    IN  TsGT(TsSub(NewestTimestamp(ns), OldestTimestamp(ns)),
             MaxStorkTimestampIntervalNano)

\* C32: an asset whose publisher timestamps, normalised to nanoseconds by
\* magnitude, are more than 500 000 000 ns apart is discarded for the frame,
\* whatever unit the timestamps arrive in.
C32_WideSpreadDiscarded ==
    \A a \in StorkTickers :
        (lastData[a] # "none" /\ SpreadExceeded(StorkData(lastData[a])))
        => ~(a \in DOMAIN latestPairs /\ latestPairs[a].frame = frameNo)

----------------------------------------------------------------------------
(* ConvertTimestampToSecond applied to publisher timestamps                *)

\* the limbs of the timestamps converted: around every threshold of the switch
TimestampHighLimbs ==
    {0, 1, 999, 1000, 1001, 1737, 999999, 1000000, 1000001, 1737468,
     999999999, 1000000000, 1000000001, 1737468044}

TimestampLowLimbs ==
    {0, 1, 123, 999, 1000, 468044594, 540691000, 594731156, 999999999}

ConvertCall ==
    /\ UNCHANGED nonHistVars
    /\ \E hi \in TimestampHighLimbs, lo \in TimestampLowLimbs :
          /\ tsIn' = Ts(hi, lo)
          /\ tsOut' = ConvertTimestampToSecond(Ts(hi, lo))
    /\ UNCHANGED <<lastData, provBatch, provMsgs, inFlight>>

NextConvert == ConvertCall

SpecConvert == InitStork /\ [][NextConvert]_vars

\* the divisor the claim names for a timestamp of this magnitude, as a power of 10
DivisorDigits(ts) ==
    IF TsGT(ts, Ts(1000000000, 0)) THEN 9
    ELSE IF TsGT(ts, Ts(1000000, 0)) THEN 6
    ELSE IF TsGT(ts, Ts(1000, 0)) THEN 3
    ELSE 0

\* out = ts \div 10^digits, stated by multiplying back: ts - out * 10^digits
\* lies in 0 .. 10^digits - 1
IsQuotient(ts, out, digits) ==
    CASE digits = 9 -> /\ out.hi * 1000000000 + out.lo = ts.hi
      [] digits = 6 -> /\ out.hi * 1000000 + (out.lo \div 1000) = ts.hi
                       /\ ts.lo - (out.lo % 1000) * 1000000 \in 0 .. 999999
      [] digits = 3 -> /\ out.hi * 1000 + (out.lo \div 1000000) = ts.hi
                       /\ ts.lo - (out.lo % 1000000) * 1000 \in 0 .. 999
      [] OTHER -> out = ts

\* C35: ConvertTimestampToSecond divides a timestamp above 10^18 by 10^9,
\* otherwise one above 10^15 by 10^6, otherwise one above 10^12 by 10^3, and
\* returns any other timestamp unchanged: 123 -> 123, 999999999 -> 999999999,
\* 1737468044594731156 -> 1737468044.
C35_SecondsByMagnitude ==
    /\ IsQuotient(tsIn, tsOut, DivisorDigits(tsIn))
    /\ tsOut.lo \in 0 .. 999999999
    /\ tsIn = Ts(0, 123) => tsOut = Ts(0, 123)
    /\ tsIn = Ts(0, 999999999) => tsOut = Ts(0, 999999999)
    /\ tsIn = Ts(1737468044, 594731156) => tsOut = Ts(1, 737468044)

\* a nanosecond timestamp has been converted
C35_Witness ==
    /\ tsIn = Ts(1737468044, 594731156)
    /\ tsOut = Ts(1, 737468044)

----------------------------------------------------------------------------
(* composeProviderFeedMsgs (unnamed/part_007)                              *)

MaxProvBatch == 2

\* provider names as feed configs spell them
ProviderNames == {"binance", "Binance", "kraken"}

\* strings.ToLower on the provider names
ToLower(name) == IF name = "Binance" THEN "binance" ELSE name

\* the Provider field of a new message: priceData.ProviderName as given
NewMsgProvider(name) == name

ProvEntries ==
    [oracleType : {"Provider", "PriceFeed"}, providerName : ProviderNames,
     symbol : {"INJ", "ATOM"}, price : {1, 2}]

ProvBatches == UNION {[1 .. n -> ProvEntries] : n \in 0 .. MaxProvBatch}

\* providerToMsg after the loop over priceBatch
RECURSIVE ProviderToMsg(_)
ProviderToMsg(batch) ==
    IF batch = <<>> THEN EmptyMap
    ELSE LET m == ProviderToMsg(SubSeq(batch, 1, Len(batch) - 1))
             pd == batch[Len(batch)]
             key == ToLower(pd.providerName)
             msg == IF key \in DOMAIN m THEN m[key]
                    ELSE [provider |-> NewMsgProvider(pd.providerName),
                          symbols |-> <<>>, prices |-> <<>>]
         IN  IF pd.oracleType # "Provider" THEN m
             ELSE Put(m, key, [msg EXCEPT !.symbols = Append(@, pd.symbol),
                                          !.prices = Append(@, pd.price)])

\* the messages returned, in the order the map iteration yields them: a set
composeProviderFeedMsgs(batch) ==
    LET m == ProviderToMsg(batch) IN {m[k] : k \in DOMAIN m}

\* one call per behaviour
ComposeProviderCall ==
    /\ UNCHANGED nonHistVars
    /\ provBatch = <<>>
    /\ \E batch \in ProvBatches :
          /\ provBatch' = batch
          /\ provMsgs' = composeProviderFeedMsgs(batch)
    /\ UNCHANGED <<lastData, tsIn, tsOut, inFlight>>

NextProvider == ComposeProviderCall

SpecProvider == InitStork /\ [][NextProvider]_vars

\* the Provider entries of the batch whose lower-cased provider name is p
RECURSIVE EntriesOf(_, _)
EntriesOf(batch, p) ==
    IF batch = <<>> THEN <<>>
    ELSE LET pd == Head(batch)
         IN  IF pd.oracleType = "Provider" /\ ToLower(pd.providerName) = p
             THEN <<pd>> \o EntriesOf(Tail(batch), p)
             ELSE EntriesOf(Tail(batch), p)

LowerProviders(batch) ==
    {ToLower(batch[i].providerName) :
        i \in {j \in DOMAIN batch : batch[j].oracleType = "Provider"}}

\* C33: a flush composes exactly one MsgRelayProviderPrices per distinct
\* lower-cased provider name; its provider field is the lower-cased name and
\* its symbols and prices are parallel slices covering every Provider entry of
\* that provider in the batch.
C33_OneMsgPerLowerProvider ==
    /\ Cardinality(provMsgs) = Cardinality(LowerProviders(provBatch))
    /\ \A p \in LowerProviders(provBatch) :
          \E msg \in provMsgs :
              LET es == EntriesOf(provBatch, p)
              IN  /\ msg.provider = p
                  /\ Len(msg.symbols) = Len(es)
                  /\ Len(msg.prices) = Len(es)
                  /\ \A i \in DOMAIN es : /\ msg.symbols[i] = es[i].symbol
                                           /\ msg.prices[i] = es[i].price

----------------------------------------------------------------------------
(* The drivers with their PullPrice calls counted                          *)

\* the call is left running and not waited for
NotAwaited(n) == n

\* result, err = pricePuller.PullPrice(requestCtx): the driver continues when
\* the call has returned
AfterReturn(n) == n - 1

flightRest == <<lastData, tsIn, tsOut, provBatch, provMsgs>>

FlightStop(t) ==
    /\ UNCHANGED nonSvcVars
    /\ DriverStopCall(t)

\* the timer fired: the first PullPrice of the cycle begins
FlightTick(t) ==
    /\ UNCHANGED <<nonSvcHistVars, flightRest>>
    /\ DriverTickCall(t)
    /\ inFlight' = [inFlight EXCEPT ![t] = @ + 1]

\* PullPrice returned an error; after the sleep the next attempt begins, if any
FlightPullErr(t) ==
    /\ UNCHANGED <<nonSvcHistVars, flightRest>>
    /\ DriverPullErrCall(t)
    /\ inFlight' = [inFlight EXCEPT ![t] =
                       IF dAttempt[t] + 1 < maxRetriesPerInterval
                       THEN AfterReturn(@) + 1 ELSE AfterReturn(@)]

FlightPullNil(t) ==
    /\ UNCHANGED <<nonSvcHistVars, flightRest>>
    /\ DriverPullNilCall(t)
    /\ inFlight' = [inFlight EXCEPT ![t] = AfterReturn(@)]

FlightPullData(t) ==
    /\ UNCHANGED <<nonSvcHistVars, flightRest>>
    /\ DriverPullDataCall(t)
    /\ inFlight' = [inFlight EXCEPT ![t] = AfterReturn(@)]

\* one driver per entry of s.pricePullers, and the batcher taking what they enqueue
NextFlight ==
    \/ Cancel
    \/ \E t \in Tickers : FlightStop(t)
    \/ \E t \in Tickers : FlightTick(t)
    \/ \E t \in Tickers : FlightPullErr(t)
    \/ \E t \in Tickers : FlightPullNil(t)
    \/ \E t \in Tickers : FlightPullData(t)
    \/ \E t \in Tickers : DriverSend(t)
    \/ BatcherRecv

SpecFlight == Init /\ [][NextFlight]_vars

\* C34: for each ticker at most one PullPrice call is in flight at any time:
\* its one driver begins the next pull or retry only after the previous call
\* has returned.
C34_OnePullInFlight ==
    \A t \in Tickers :
        /\ inFlight[t] \in {0, 1}
        /\ inFlight[t] = 1 <=> dpc[t] = "pull"

\* a retry is in flight
C34_Witness ==
    \E t \in Tickers :
        /\ dpc[t] = "pull"
        /\ dAttempt[t] >= 1
        /\ inFlight[t] = 1

----------------------------------------------------------------------------
(* The batcher fed with one stream of observations in one window           *)

\* the symbol of the k-th observation of the stream: the second repeats the
\* symbol of the first, every other one brings a new symbol
StreamSymbol(k) == IF k = 2 THEN 1 ELSE k

ProducerSendStream ==
    /\ nextId <= MaxObsFull
    /\ ProducerSend("stork", StreamSymbol(nextId))

StreamOver == nextId > MaxObsFull /\ dataC = <<>>

NextWindow ==
    \/ Cancel
    \/ ProducerSendStream
    \/ ProducerClose
    \/ BatcherCancel
    \/ BatcherRecv
    \/ StreamOver /\ BatcherTimer
    \/ BatcherBroadcast

SpecWindow == InitBatch /\ [][NextWindow]_vars

\* the observations the batcher has taken from the channel and accepted
Accepted == (1 .. nextId - 1) \ {dataC[i].id : i \in DOMAIN dataC}

FlushesOf(id) == {i \in DOMAIN flushLog : id \in flushLog[i].ids}

\* a later accepted observation of the same key took the place of id before
\* id was flushed
Overwritten(id) ==
    /\ FlushesOf(id) = {}
    /\ \E k \in Accepted : k > id /\ StreamSymbol(k) = StreamSymbol(id)

\* C36: every observation accepted into the batch is handed to exactly one
\* flush unless a later observation of the same key overwrote it in the same
\* window; when more distinct keys than the size limit arrive in one window,
\* the first flush carries exactly 100 entries and one later flush carries all
\* the remaining ones.
C36_FlushedExactlyOnce ==
    /\ \A id \in Accepted :
          /\ Cardinality(FlushesOf(id)) <= 1
          /\ FlushesOf(id) # {} => id \notin Ids(pricesBatch)
          /\ FlushesOf(id) = {} => id \in Ids(pricesBatch) \/ Overwritten(id)
          /\ Overwritten(id) => id \notin Ids(pricesBatch)
    /\ (flushLog # <<>> /\ flushLog[1].reason = "full")
          => Cardinality(flushLog[1].ids) = 100
    /\ (Accepted = 1 .. MaxObsFull /\ pricesBatch = EmptyMap)
          => /\ flushLog[1].reason = "full"
             /\ \E j \in 2 .. Len(flushLog) :
                   /\ flushLog[j].ids =
                         {id \in Accepted : ~Overwritten(id)} \ flushLog[1].ids
                   /\ \A i \in 2 .. Len(flushLog) : i # j => flushLog[i].ids = {}

\* the first flush took 100 entries, the overwritten observation is in no
\* flush, and one later flush took the rest
C36_Witness ==
    /\ Accepted = 1 .. MaxObsFull
    /\ Len(flushLog) >= 2
    /\ Cardinality(flushLog[1].ids) = 100
    /\ FlushesOf(1) = {}
    /\ 2 \in flushLog[1].ids
    /\ flushLog[2].ids # {}
    /\ pricesBatch = EmptyMap

----------------------------------------------------------------------------
(* The context of a broadcast                                              *)

\* requestCtx of broadcastToClient is context.WithTimeout(ctx, chainMaxTimeLimit)
\* of the ctx commitSetPrices was given: it is done as soon as that ctx is
RequestCtxDone == ctxDone

\* C37: while the final flush on cancellation is being submitted, the
\* broadcast context handed to a client is live, not already cancelled.
C37_FinalFlushCtxLive ==
    (bpc = "submit" /\ sub.final /\ flushLog[Len(flushLog)].reason = "cancel")
    => ~RequestCtxDone

----------------------------------------------------------------------------
(* The submitted-count metric                                              *)

\* the entries of an oracle type in a batch
EntriesOfType(batch, otype) == {k \in DOMAIN batch : batch[k].otype = otype}

C39_Step ==
    (bpc = "submit" /\ attemptLog' # attemptLog /\ lastBroadcast'.ok)
    => /\ DOMAIN lastBroadcast'.metric = {sub.batch[k].otype : k \in DOMAIN sub.batch}
       /\ \A otype \in DOMAIN lastBroadcast'.metric :
             lastBroadcast'.metric[otype]
                = Cardinality(EntriesOfType(sub.batch, otype))

\* C39: on a successful flush the submitted-count emitted for each oracle
\* type equals the number of entries of that type in the flushed batch.
C39_SubmittedCountIsEntries == [][C39_Step]_vars

----------------------------------------------------------------------------
(* The effect of a frame on the Stork cache                                *)

\* the assets whose cache entry a step sets or replaces
ChangedEntries ==
    {a \in DOMAIN latestPairs' :
        a \notin DOMAIN latestPairs \/ latestPairs'[a] # latestPairs[a]}

C40_Step ==
    /\ (frameNo' # frameNo /\ lastFrame' \in StorkIgnoredTypes)
         => /\ latestPairs' = latestPairs
            /\ fpc' = "reading"
            /\ connOpen'
    /\ (latestPairs' # latestPairs /\ fpc' # "returned")
         => /\ frameNo' = frameNo + 1
            /\ lastFrame' = "oracle_prices"
            /\ DOMAIN latestPairs \subseteq DOMAIN latestPairs'
            /\ \A a \in ChangedEntries :
                  /\ latestPairs'[a].frame = frameNo'
                  /\ latestPairs'[a].assetId = a
                  /\ ~rejected'[a]

\* C40: a frame of type subscribe, of an unknown type or one that fails to
\* parse leaves the Stork cache unchanged and does not end Start; while Start
\* runs, only an accepted asset of an oracle_prices frame changes the cache,
\* and it changes only that asset's entry.
C40_FrameEffects == [][C40_Step]_vars

\* an unknown frame has been read with a filled cache, and Start goes on
C40_Witness ==
    /\ lastFrame = "unknown"
    /\ fpc = "reading"
    /\ Cardinality(DOMAIN latestPairs) = 1

----------------------------------------------------------------------------
(* The clients a flush goes through                                        *)

\* C38: a client for which composition yields no messages gets no broadcast
\* call and the flush goes on to the next client of the list; no client is
\* called with an empty message list, and an empty batch triggers no broadcast.
C38_EmptyCompositionSkipped ==
    /\ bpc = "submit" => (DOMAIN sub.batch # {} /\ composeMsgs(sub.batch) # {})
    /\ (/\ flushLog # <<>>
        /\ flushLog[Len(flushLog)].ids # {}
        /\ bpc # "submit"
        /\ AcksOf(attemptLog) = {})
       => composedFor = Clients

====
